---- MODULE Spec2Model ----
(***************************************************************************)
(* Verification model of the examGenome question generators.               *)
(*                                                                         *)
(*   - the geometry MCQ generator of code/python/untitled1.py and its      *)
(*     sequential sibling code/python/randomShapeGenerator.py (gen_one,    *)
(*     the ten gen_<shape> functions, mcq_options_int, mcq_options_small); *)
(*   - the option builders of code/python/randomAreaProblemImage.py;       *)
(*   - generate_question of code/python/concentricShape.py;                *)
(*   - the threaded batch of untitled1.main.                               *)
(*                                                                         *)
(* Random draws are nondeterministic choices.  Floating point formulas are *)
(* evaluated in integer arithmetic; every such operator below agrees with  *)
(* the float evaluation of the source on every dimension 1..103.           *)
(***************************************************************************)
EXTENDS Integers, Sequences, FiniteSets, TLC

VARIABLES
    variant,    \* the source file whose code is running
    pc,         \* position inside the running generator
    shape,      \* shape name picked by the caller
    diff,       \* difficulty tier picked by the caller
    qtype,      \* question type picked by gen_one
    dims,       \* the sampled dimensions (locals of gen_<shape>)
    tries,      \* attempts used by the scalene resampling loop
    draws,      \* dimension labels emitted so far, in order
    qtext,      \* the question text
    correct,    \* the correct value handed to option assembly
    pool,       \* candidate pool of the symmetry option builder
    cand,       \* the set an option builder is filling
    iters,      \* sampling iterations of mcq_options_int so far (saturating)
    opts,       \* the shuffled option list
    options,    \* the options mapping A..E
    letter,     \* the returned correct letter
    futures,    \* untitled1.main: state of each submitted task
    out,        \* untitled1.main: records collected so far
    manifest,   \* untitled1.main: content of questions.json, NoManifest before
    mainpc,     \* untitled1.main: position of the main thread
    etlpc,      \* position inside the question-paper scripts
    data_list,  \* etlPythonEnh: the parsed items, shuffled in place
    cursor,     \* index of the item a for-loop is at
    selected_questions, \* etlPythonEnh: the items selected so far
    type_count, \* etlPythonEnh: per-classification counters
    all_data,   \* topic sample paper: the loaded questions
    paper_pool, \* topic sample paper: the module-level list named pool
    used,       \* topic sample paper: used_questions, the used signatures
    returned,   \* topic sample paper: the batch of every select_questions call
    pdfs,       \* topic sample paper: the batches written as PDFs
    pdf_i,      \* topic sample paper: loop index i of create_multiple_pdfs
    fnpc,       \* fnumberParameter: position inside update_json_files
    folder,     \* fnumberParameter: the folder and its files, in listing order
    folder0,    \* fnumberParameter: the folder as it was before the first run
    fnpos,      \* fnumberParameter: index of the file the loop is at
    runs,       \* fnumberParameter: completed runs of the script
    after_one,  \* fnumberParameter: the files as the first run left them
    story,      \* write_to_pdf: the flowables of the Questions section
    questions,  \* write_to_pdf: the local of that name, unbound at first
    answers,    \* write_to_pdf: the entries of the answer sheet
    crawlpc,    \* crawl: position inside main
    resp,       \* crawl: what the request of fetch_json comes back with
    data,       \* crawl: the local of main that holds fetch_json's result
    outdir      \* crawl: the files of OUTPUT_DIR

genVars == <<variant, pc, shape, diff, qtype, dims, tries, draws, qtext,
             correct, pool, cand, iters, opts, options, letter>>
mainVars == <<futures, out, manifest, mainpc>>
etlVars == <<etlpc, data_list, cursor, selected_questions, type_count,
             all_data, paper_pool, used, returned, pdfs, pdf_i>>
fnVars == <<fnpc, folder, folder0, fnpos, runs, after_one>>
pdfVars == <<story, questions, answers>>
crawlVars == <<crawlpc, resp, data, outdir>>
toolVars == <<fnVars, pdfVars, crawlVars>>
vars == <<variant, pc, shape, diff, qtype, dims, tries, draws, qtext,
          correct, pool, cand, iters, opts, options, letter,
          futures, out, manifest, mainpc,
          etlpc, data_list, cursor, selected_questions, type_count,
          all_data, paper_pool, used, returned, pdfs, pdf_i,
          fnpc, folder, folder0, fnpos, runs, after_one,
          story, questions, answers, crawlpc, resp, data, outdir>>

-----------------------------------------------------------------------------
(* Bounds of the model *)

\* randint(lo, hi) is sampled at the Edge lowest and Edge highest values
Edge == 2
\* delta of mcq_options_int is sampled at 1..NearDeltas and at the spread
NearDeltas == 3
\* a retry cap for mcq_options_int: the iteration counter saturates above it
IterCap == 4
\* questionVolume of the threaded batch, scaled down
NumQuestions == 3

\* threads of the pool, standing for max_workers = max(4, cpu_count)
PoolThreads == 2

\* question indices whose image paths are compared pairwise
PathIndices == 12

\* items of the large input of filter_and_sample_questions
ManyItems == 56

\* questions of the largest input of create_multiple_pdfs
MaxQuestions == 100

\* orders sampled from one random.shuffle of a batch
ShuffleSamples == 3

\* files in the folder handed to update_json_files, and runs of the script
\* items of the list handed to write_to_pdf
MaxPaperItems == 3

FolderSize == 2

\* crawl: URLs in base_url, and entries of a response
NumUrls == 3
MaxEntries == 3
MaxRuns == 2

-----------------------------------------------------------------------------
(* Program constants *)

U1 == "untitled1"
RSG == "randomShapeGenerator"
RAPI == "randomAreaProblemImage"
CONC == "concentricShape"

DIFF_RANGES == [easy |-> <<1, 10>>, medium |-> <<11, 50>>, difficult |-> <<51, 100>>]
DIFF_LEVELS == {"easy", "medium", "difficult"}

SHAPES == {"square", "rectangle", "equilateral_triangle", "isosceles_triangle",
           "scalene_triangle", "trapezium", "parallelogram", "circle",
           "regular_hexagon", "regular_pentagon"}

Q_TYPES == {"area", "perimeter", "missing", "symmetry"}

labels == <<"A", "B", "C", "D", "E">>

\* the retry budget of gen_scalene_triangle
MaxTries == 100
\* floor of the distractor spread in untitled1.mcq_options_int
SpreadFloor == 6
\* default spread argument of randomShapeGenerator.mcq_options_int
SpreadDefault == 8
\* minimum max_delta of randomAreaProblemImage.generate_mcq_int
MinMaxDelta == 8

\* etlPythonEnh.py: the selection limits
MAX_PER_TYPE == 4
TOTAL_QUESTIONS == 50

\* etlPythonEnh_topic_sample_paper.py: questions per PDF, the count passed to
\* select_questions, and the range of the loop over the PDFs
TOTAL_PER_PDF == 20
SelectCount == 20
PdfRange == 4

-----------------------------------------------------------------------------
(* Arithmetic helpers *)

Min(a, b) == IF a < b THEN a ELSE b
Max(a, b) == IF a > b THEN a ELSE b
Abs(a) == IF a < 0 THEN -a ELSE a

\* Python round() of the non-negative rational num/den: half to even
RoundHalfEven(num, den) ==
    LET q == num \div den
        r == num % den
    IN  IF 2 * r < den THEN q
        ELSE IF 2 * r > den THEN q + 1
        ELSE IF q % 2 = 0 THEN q ELSE q + 1

\* clamp_int(x) == int(round(x)) for x = num/den
clamp_int(num, den) == RoundHalfEven(num, den)

RECURSIVE ISqrtIn(_, _, _)
ISqrtIn(n, lo, hi) ==
    IF lo >= hi THEN lo
    ELSE LET mid == (lo + hi + 1) \div 2
         IN  IF mid * mid <= n THEN ISqrtIn(n, mid, hi) ELSE ISqrtIn(n, lo, mid - 1)

\* floor(sqrt(n)) for 0 <= n < 2^31
ISqrt(n) == ISqrtIn(n, 0, Min(n, 46340))

\* round(math.sqrt(n)): sqrt(n) is an integer or irrational, never a half
RoundSqrt(n) ==
    LET r == ISqrt(n) IN IF n - r * r > r THEN r + 1 ELSE r

\* round(math.sqrt(n) / 4.0)
RoundQuarterSqrt(n) ==
    LET r == ISqrt(n)
    IN  IF r * r = n THEN RoundHalfEven(r, 4) ELSE (r + 2) \div 4

\* clamp_int((math.sqrt(3) / 4.0) * s * s)
EquilateralArea(s) == clamp_int(18817 * s * s, 4 * 10864)

\* clamp_int(math.pi * r * r) and clamp_int(2 * math.pi * r)
CircleArea(r) == clamp_int(355 * r * r, 113)
Circumference(r) == clamp_int(710 * r, 113)

\* clamp_int((n * s * s) / (4.0 * math.tan(math.pi / n))) for n = 5, 6
NgonArea(n, s) ==
    IF n = 5 THEN clamp_int(158425 * s * s, 92082)
    ELSE clamp_int(35113 * s * s, 13515)

\* Heron's formula as gen_scalene_triangle evaluates it:
\* clamp_int(sqrt(max(s(s-a)(s-b)(s-c), 0.0))) with s = (a+b+c)/2
HeronArea(a, b, c) ==
    LET p == (a + b + c) * (b + c - a) * (a + c - b) * (a + b - c)
    IN  IF p <= 0 THEN 0 ELSE RoundQuarterSqrt(p)

-----------------------------------------------------------------------------
(* String helpers: strings are sequences of one-character strings *)

DigitChar(d) == <<"0", "1", "2", "3", "4", "5", "6", "7", "8", "9">>[d + 1]

RECURSIVE NatDigits(_)
NatDigits(n) ==
    IF n < 10 THEN <<DigitChar(n)>>
    ELSE Append(NatDigits(n \div 10), DigitChar(n % 10))

\* str(int(n))
i2s(n) == IF n < 0 THEN <<"-">> \o NatDigits(-n) ELSE NatDigits(n)

\* f"{v} cm", the label of a known dimension, and "?", the placeholder
LabelCm(v) == i2s(v) \o <<" ", "c", "m">>
Unknown == <<"?">>

\* list.index(x): the first position holding x
IndexOf(seq, x) ==
    CHOOSE i \in 1..Len(seq) : seq[i] = x /\ \A j \in 1..(i - 1) : seq[j] /= x

\* the list of a set of integers in ascending order
RECURSIVE SortedSeq(_)
SortedSeq(S) ==
    IF S = {} THEN <<>>
    ELSE LET m == CHOOSE x \in S : \A y \in S : x <= y
         IN  <<m>> \o SortedSeq(S \ {m})

Rotate(seq, k) ==
    [i \in 1..Len(seq) |-> seq[((i + k - 1) % Len(seq)) + 1]]

-----------------------------------------------------------------------------
(* The random source *)

\* random.randint(lo, hi), sampled at both ends of the range
RandInt(lo, hi) == {v \in lo..hi : v < lo + Edge \/ v > hi - Edge}

\* random.shuffle(list(S)) followed by placing: the sampled outcomes are the
\* rotations of the ascending order, so every value reaches every position
Shuffles(S) == {Rotate(SortedSeq(S), k) : k \in 0..(Cardinality(S) - 1)}

\* the signed delta of one sampling iteration: delta = randint(1, limit),
\* then random.choice([-delta, delta])
SignedDeltas(limit) ==
    {d \in 1..limit : d <= NearDeltas \/ d = limit} \cup {-limit}

-----------------------------------------------------------------------------
(* Shape generators: dimension sampling *)

Dims0 == [s |-> 0, w |-> 0, h |-> 0, base |-> 0, height |-> 0, a |-> 0, b |-> 0,
          c |-> 0, top |-> 0, bottom |-> 0, slant |-> 0, r |-> 0]

NoText == [ask |-> "", known |-> "", value |-> 0]

Lo(d) == DIFF_RANGES[d][1]
Hi(d) == DIFF_RANGES[d][2]

\* gen_rectangle: w = randint, h = randint, if w == h: w += 1
RectangleWidth(w, h) == IF w = h THEN w + 1 ELSE w

\* gen_trapezium: the values bottom can take for a given top
TrapeziumBottoms(v, top, lo, hi) ==
    IF v = U1
    THEN RandInt(Max(top + 2, lo + 2), Max(top + 2, hi))
    ELSE {Min(bt, Max(top + 2, hi)) :
             bt \in RandInt(Max(top + 2, lo + 2), hi + Max(0, top - lo))}

\* gen_parallelogram: slant = randint(1, max(2, min(10, b // 2)))
Slants(b) == RandInt(1, Max(2, Min(10, b \div 2)))

\* the dimension sets one call of gen_<shape> can sample (all shapes but the
\* scalene triangle, which resamples in a loop)
SampleDims(v, sh, lo, hi) ==
    CASE sh \in {"square", "equilateral_triangle", "regular_hexagon", "regular_pentagon"} ->
            {[Dims0 EXCEPT !.s = x] : x \in RandInt(lo, hi)}
      [] sh = "rectangle" ->
            {[Dims0 EXCEPT !.w = RectangleWidth(x, y), !.h = y] :
                x \in RandInt(lo, hi), y \in RandInt(lo, hi)}
      [] sh = "isosceles_triangle" ->
            {[Dims0 EXCEPT !.base = x, !.height = y] :
                x \in RandInt(lo, hi), y \in RandInt(lo, hi)}
      [] sh = "trapezium" ->
            UNION {{[Dims0 EXCEPT !.top = t, !.bottom = bt, !.h = y] :
                        bt \in TrapeziumBottoms(v, t, lo, hi), y \in RandInt(lo, hi)} :
                   t \in RandInt(lo, hi)}
      [] sh = "parallelogram" ->
            UNION {{[Dims0 EXCEPT !.b = x, !.h = y, !.slant = sl] :
                        y \in RandInt(lo, hi), sl \in Slants(x)} :
                   x \in RandInt(lo, hi)}
      [] sh = "circle" ->
            {[Dims0 EXCEPT !.r = x] : x \in RandInt(lo, hi)}
      [] OTHER ->
            IF v = U1 THEN {[Dims0 EXCEPT !.s = x] : x \in RandInt(lo, hi)} ELSE {Dims0}

\* one draw of the three sides of the scalene triangle
SideTriples(lo, hi) ==
    {[Dims0 EXCEPT !.a = x, !.b = y, !.c = z] :
        x \in RandInt(lo, hi), y \in RandInt(lo, hi), z \in RandInt(lo, hi)}

\* valid(a, b, c) of gen_scalene_triangle
valid(d) == d.a + d.b > d.c /\ d.a + d.c > d.b /\ d.b + d.c > d.a

\* the test that ends the resampling loop with a break / without another draw
ScaleneAccepts(v, d) ==
    IF v = U1 THEN valid(d) /\ Cardinality({d.a, d.b, d.c}) = 3
    ELSE valid(d)

-----------------------------------------------------------------------------
(* Shape generators: drawing, answer and question text *)

\* draw_dimension(ax, ..., label): one dimension line with its label
Dim(edge, text) == [edge |-> edge, text |-> text]

\* "What is the <ask> of the given shape?"
AskText(ask) == [ask |-> ask, known |-> "", value |-> 0]
\* "The <known> is <value> cm... Find the <ask> (in cm)."
FindText(known, value, ask) == [ask |-> ask, known |-> known, value |-> value]
\* "How many lines of symmetry does this shape contain?"
SymmetryText == [ask |-> "symmetry", known |-> "", value |-> 0]

IntQuestion(dr, qt, cv) ==
    [draws |-> dr, qtext |-> qt, correct |-> cv, builder |-> "int", pool |-> {}]
SmallQuestion(dr, cv, pl) ==
    [draws |-> dr, qtext |-> SymmetryText, correct |-> cv, builder |-> "small", pool |-> pl]

\* a square answered with twice its side for every question type
gen_square_doubled(q, d) == IntQuestion(<<>>, AskText(q), d.s + d.s)

gen_square(q, d) ==
    LET dr == <<Dim("top", LabelCm(d.s)), Dim("left", LabelCm(d.s))>>
    IN  CASE q = "area" -> IntQuestion(dr, AskText("area"), d.s * d.s)
          [] q = "perimeter" -> IntQuestion(dr, AskText("perimeter"), 4 * d.s)
          [] q = "missing" ->
                IntQuestion(Append(dr, Dim("top", Unknown)),
                            FindText("area", d.s * d.s, "side length"), d.s)
          [] OTHER -> SmallQuestion(dr, 4, {0, 1, 2, 3, 4, 6})

gen_rectangle(q, d) ==
    LET dr == <<Dim("top", LabelCm(d.w)), Dim("left", LabelCm(d.h))>>
    IN  CASE q = "area" -> IntQuestion(dr, AskText("area"), d.w * d.h)
          [] q = "perimeter" -> IntQuestion(dr, AskText("perimeter"), 2 * (d.w + d.h))
          [] q = "missing" ->
                IntQuestion(Append(dr, Dim("top", Unknown)),
                            FindText("area", d.w * d.h, "width"), d.w)
          [] OTHER -> SmallQuestion(dr, 2, {0, 1, 2, 3, 4})

gen_equilateral_triangle(q, d) ==
    LET dr == <<Dim("base", LabelCm(d.s))>>
    IN  CASE q = "area" -> IntQuestion(dr, AskText("area"), EquilateralArea(d.s))
          [] q = "perimeter" -> IntQuestion(dr, AskText("perimeter"), 3 * d.s)
          [] q = "missing" ->
                IntQuestion(Append(dr, Dim("base", Unknown)),
                            FindText("area", EquilateralArea(d.s), "side length"), d.s)
          [] OTHER -> SmallQuestion(dr, 3, {0, 1, 2, 3, 6})

gen_isosceles_triangle(q, d) ==
    LET dr == <<Dim("base", LabelCm(d.base)), Dim("height", LabelCm(d.height))>>
        area == clamp_int(d.base * d.height, 2)
    IN  CASE q = "area" -> IntQuestion(dr, AskText("area"), area)
          [] q = "perimeter" ->
                IntQuestion(dr, AskText("perimeter"),
                            d.base + RoundSqrt(d.base * d.base + 4 * d.height * d.height))
          [] q = "missing" ->
                IntQuestion(Append(dr, Dim("height", Unknown)),
                            FindText("area", area, "height"), d.height)
          [] OTHER -> SmallQuestion(dr, 1, {0, 1, 2, 3})

gen_scalene_triangle(q, d) ==
    LET dr == <<Dim("base", LabelCm(d.a)), Dim("side_b", LabelCm(d.b)),
                Dim("side_c", LabelCm(d.c))>>
    IN  CASE q = "area" -> IntQuestion(dr, AskText("area"), HeronArea(d.a, d.b, d.c))
          [] q = "perimeter" -> IntQuestion(dr, AskText("perimeter"), d.a + d.b + d.c)
          [] q = "missing" ->
                IntQuestion(Append(dr, Dim("base", Unknown)),
                            FindText("perimeter", d.a + d.b + d.c, "missing side"), d.a)
          [] OTHER -> SmallQuestion(dr, 0, {0, 1, 2, 3})

gen_trapezium(q, d) ==
    LET dr == <<Dim("bottom", LabelCm(d.bottom)), Dim("top", LabelCm(d.top)),
                Dim("height", LabelCm(d.h))>>
        area == clamp_int((d.top + d.bottom) * d.h, 2)
        legs == RoundSqrt((d.bottom - d.top) * (d.bottom - d.top) + 4 * d.h * d.h)
    IN  CASE q = "area" -> IntQuestion(dr, AskText("area"), area)
          [] q = "perimeter" -> IntQuestion(dr, AskText("perimeter"), d.top + d.bottom + legs)
          [] q = "missing" ->
                IntQuestion(Append(dr, Dim("height", Unknown)),
                            FindText("area", area, "height"), d.h)
          [] OTHER -> SmallQuestion(dr, 1, {0, 1, 2, 3})

gen_parallelogram(q, d) ==
    LET dr == <<Dim("base", LabelCm(d.b)), Dim("height", LabelCm(d.h))>>
    IN  CASE q = "area" -> IntQuestion(dr, AskText("area"), d.b * d.h)
          [] q = "perimeter" ->
                IntQuestion(dr, AskText("perimeter"),
                            2 * d.b + RoundSqrt(4 * (d.slant * d.slant + d.h * d.h)))
          [] q = "missing" ->
                IntQuestion(Append(dr, Dim("base", Unknown)),
                            FindText("area", d.b * d.h, "base"), d.b)
          [] OTHER -> SmallQuestion(dr, 0, {0, 1, 2, 3})

gen_circle(q, d) ==
    LET dr == IF q = "missing" THEN <<Dim("diameter", Unknown)>>
              ELSE <<Dim("diameter", LabelCm(2 * d.r))>>
    IN  CASE q = "area" -> IntQuestion(dr, AskText("area"), CircleArea(d.r))
          [] q = "perimeter" -> IntQuestion(dr, AskText("circumference"), Circumference(d.r))
          [] q = "missing" ->
                IntQuestion(dr, FindText("circumference", Circumference(d.r), "radius"), d.r)
          [] OTHER -> IntQuestion(dr, AskText("circumference"), Circumference(d.r))

\* the pool gen_regular_ngon passes for the symmetry question
NgonPool(v, n) == IF v = U1 THEN 0..(Max(8, n + 1) - 1) ELSE 0..n

gen_regular_ngon(v, q, d, n) ==
    LET dr == <<Dim("side", LabelCm(d.s))>>
    IN  CASE q = "area" -> IntQuestion(dr, AskText("area"), NgonArea(n, d.s))
          [] q = "perimeter" -> IntQuestion(dr, AskText("perimeter"), n * d.s)
          [] q = "missing" ->
                IntQuestion(Append(dr, Dim("side", Unknown)),
                            FindText("perimeter", n * d.s, "side length"), d.s)
          [] OTHER -> SmallQuestion(dr, n, NgonPool(v, n))

\* every name handled as a square of the chosen question type
GenerateSquare(v, sh, q, d) == gen_square(q, d)

\* the dispatch of gen_one, with its fallback for a name outside the catalogue
Generate(v, sh, q, d) ==
    CASE sh = "square" -> gen_square(q, d)
      [] sh = "rectangle" -> gen_rectangle(q, d)
      [] sh = "equilateral_triangle" -> gen_equilateral_triangle(q, d)
      [] sh = "isosceles_triangle" -> gen_isosceles_triangle(q, d)
      [] sh = "scalene_triangle" -> gen_scalene_triangle(q, d)
      [] sh = "trapezium" -> gen_trapezium(q, d)
      [] sh = "parallelogram" -> gen_parallelogram(q, d)
      [] sh = "circle" -> gen_circle(q, d)
      [] sh = "regular_hexagon" -> gen_regular_ngon(v, q, d, 6)
      [] sh = "regular_pentagon" -> gen_regular_ngon(v, q, d, 5)
      [] OTHER -> IF v = U1 THEN gen_square("area", d)
                  ELSE IntQuestion(<<>>, AskText("area"), 1)

\* the question types gen_one chooses from
QuestionTypesAll(sh) == Q_TYPES
QuestionTypes(sh) == IF sh /= "circle" THEN Q_TYPES ELSE {"area", "perimeter", "missing"}

\* the dimension whose label a missing-dimension question hides
HiddenEdge(sh) ==
    CASE sh \in {"square", "rectangle"} -> "top"
      [] sh \in {"equilateral_triangle", "scalene_triangle", "parallelogram"} -> "base"
      [] sh \in {"isosceles_triangle", "trapezium"} -> "height"
      [] sh = "circle" -> "diameter"
      [] OTHER -> "side"

-----------------------------------------------------------------------------
(* Option builders: mcq_options_int / generate_mcq_int and                 *)
(* mcq_options_small / mcq_options_small_set / generate_mcq_small_candidates *)

\* the largest delta one sampling iteration can draw
SpreadNoFloor(v, c) == Abs(c) \div 5
Spread(v, c) ==
    CASE v = U1 -> Max(SpreadFloor, Abs(c) \div 5)
      [] v = RSG -> Max(SpreadDefault, Max(6, RoundHalfEven(Abs(c), 5)))
      [] OTHER -> Max(MinMaxDelta, (Max(1, Abs(c)) + 4) \div 5)

\* the set the sampling loop starts from
IntStart(v, c) == IF v = RAPI THEN {} ELSE {c}

\* every sampled value is added
IntAcceptsAll(v, val, c) == TRUE

\* whether a sampled value is added to the set
IntAccepts(v, val, c) == IF v = RAPI THEN val /= c /\ val >= 0 ELSE val > 0

\* the exit test of the sampling loop
IntFull(v, cnd) == IF v = RAPI THEN Cardinality(cnd) >= 4 ELSE Cardinality(cnd) >= 5

\* the values that are shuffled into the option list
OptionSet(v, cnd, c) == IF v = RAPI THEN cnd \cup {c} ELSE cnd

\* the value stored under a label: i2s(opts[i]), or int(options_list[i])
OptionValue(v, x) == IF v = RAPI THEN x ELSE i2s(x)

\* correct_letter = labels[opts.index(correct)]
CorrectLetterFirst(seq, c) == labels[1]
CorrectLetter(seq, c) == labels[IndexOf(seq, c)]

\* {labels[i]: value(opts[i]) for i in range(5)}
OptionsDict(v, seq) ==
    [l \in {labels[i] : i \in 1..Min(5, Len(seq))} |-> OptionValue(v, seq[IndexOf(labels, l)])]

\* the exit test of the symmetry builder's loop
SmallFull(chosen) == Cardinality(chosen) >= 5

NoOptions == <<>>

(* one sampling iteration of the integer option builder *)
IntSample ==
    /\ pc = "int_loop"
    /\ ~IntFull(variant, cand)
    /\ \E sd \in SignedDeltas(Spread(variant, correct)) :
          cand' = IF IntAccepts(variant, correct + sd, correct)
                  THEN cand \cup {correct + sd}
                  ELSE cand
    /\ iters' = Min(iters + 1, IterCap + 1)
    /\ UNCHANGED <<variant, pc, shape, diff, qtype, dims, tries, draws, qtext,
                   correct, pool, opts, options, letter>>
    /\ UNCHANGED <<mainVars, etlVars, toolVars>>

(* the loop is over: shuffle, find the correct letter, build the mapping *)
IntReturn ==
    /\ pc = "int_loop"
    /\ IntFull(variant, cand)
    /\ \E seq \in Shuffles(OptionSet(variant, cand, correct)) :
          /\ opts' = seq
          /\ letter' = CorrectLetter(seq, correct)
          /\ options' = OptionsDict(variant, seq)
    /\ pc' = "done"
    /\ UNCHANGED <<variant, shape, diff, qtype, dims, tries, draws, qtext,
                   correct, pool, cand, iters>>
    /\ UNCHANGED <<mainVars, etlVars, toolVars>>

(* one iteration of the symmetry builder: chosen.add(random.choice(list(s))) *)
SmallPick ==
    /\ pc = "small_loop"
    /\ ~SmallFull(cand)
    /\ \E x \in pool : cand' = cand \cup {x}
    /\ UNCHANGED <<variant, pc, shape, diff, qtype, dims, tries, draws, qtext,
                   correct, pool, iters, opts, options, letter>>
    /\ UNCHANGED <<mainVars, etlVars, toolVars>>

SmallReturn ==
    /\ pc = "small_loop"
    /\ SmallFull(cand)
    /\ \E seq \in Shuffles(cand) :
          /\ opts' = seq
          /\ letter' = CorrectLetter(seq, correct)
          /\ options' = OptionsDict(variant, seq)
    /\ pc' = "done"
    /\ UNCHANGED <<variant, shape, diff, qtype, dims, tries, draws, qtext,
                   correct, pool, cand, iters>>
    /\ UNCHANGED <<mainVars, etlVars, toolVars>>

-----------------------------------------------------------------------------
(* gen_one and the shape generators as steps *)

(* build_one / main pick diff and shape, gen_one picks the question type *)
GenOne ==
    /\ pc = "start"
    /\ \E d \in DIFF_LEVELS, sh \in SHAPES :
          \E q \in QuestionTypes(sh) :
             /\ diff' = d
             /\ shape' = sh
             /\ qtype' = q
    /\ pc' = "sample"
    /\ UNCHANGED <<variant, dims, tries, draws, qtext, correct, pool, cand, iters,
                   opts, options, letter>>
    /\ UNCHANGED <<mainVars, etlVars, toolVars>>

(* the random.randint calls at the top of gen_<shape> *)
SampleDimensions ==
    /\ pc = "sample"
    /\ shape /= "scalene_triangle"
    /\ dims' \in SampleDims(variant, shape, Lo(diff), Hi(diff))
    /\ pc' = "draw"
    /\ UNCHANGED <<variant, shape, diff, qtype, tries, draws, qtext, correct, pool,
                   cand, iters, opts, options, letter>>
    /\ UNCHANGED <<mainVars, etlVars, toolVars>>

\* whether the resampling loop of gen_scalene_triangle runs another iteration
ScaleneLoops(v, d, n) ==
    IF v = U1 THEN n < MaxTries ELSE ~valid(d) /\ n < MaxTries

(* entry of gen_scalene_triangle: a = b = c = 0 (untitled1), a first draw
   (randomShapeGenerator) *)
ScaleneStart ==
    /\ pc = "sample"
    /\ shape = "scalene_triangle"
    /\ dims' \in (IF variant = U1 THEN {Dims0} ELSE SideTriples(Lo(diff), Hi(diff)))
    /\ tries' = 0
    /\ pc' = "scalene_loop"
    /\ UNCHANGED <<variant, shape, diff, qtype, draws, qtext, correct, pool,
                   cand, iters, opts, options, letter>>
    /\ UNCHANGED <<mainVars, etlVars, toolVars>>

(* one iteration of the resampling loop *)
ScaleneResample ==
    /\ pc = "scalene_loop"
    /\ ScaleneLoops(variant, dims, tries)
    /\ \E t \in SideTriples(Lo(diff), Hi(diff)) :
          /\ dims' = t
          /\ IF variant = U1 /\ ScaleneAccepts(variant, t)
             THEN pc' = "draw" /\ tries' = tries
             ELSE pc' = pc /\ tries' = tries + 1
    /\ UNCHANGED <<variant, shape, diff, qtype, draws, qtext, correct, pool,
                   cand, iters, opts, options, letter>>
    /\ UNCHANGED <<mainVars, etlVars, toolVars>>

(* the loop condition is false: the last triple is used *)
ScaleneExit ==
    /\ pc = "scalene_loop"
    /\ ~ScaleneLoops(variant, dims, tries)
    /\ pc' = "draw"
    /\ UNCHANGED <<variant, shape, diff, qtype, dims, tries, draws, qtext, correct,
                   pool, cand, iters, opts, options, letter>>
    /\ UNCHANGED <<mainVars, etlVars, toolVars>>

(* the body of gen_<shape> after sampling: the drawing calls, the answer, the
   question text, and the entry of the option builder.  The loop counter is
   not read after the loop and is forgotten here. *)
Draw ==
    /\ pc = "draw"
    /\ LET g == Generate(variant, shape, qtype, dims)
       IN  /\ draws' = g.draws
           /\ qtext' = g.qtext
           /\ correct' = g.correct
           /\ IF g.builder = "int"
              THEN /\ pool' = {}
                   /\ cand' = IntStart(variant, g.correct)
                   /\ pc' = "int_loop"
              ELSE /\ pool' = g.pool \cup {g.correct}
                   /\ cand' = {g.correct}
                   /\ pc' = "small_loop"
    /\ tries' = 0
    /\ UNCHANGED <<variant, shape, diff, qtype, dims, iters, opts, options, letter>>
    /\ UNCHANGED <<mainVars, etlVars, toolVars>>

-----------------------------------------------------------------------------
(* Specification of one question of untitled1.py / randomShapeGenerator.py *)

\* questions.json does not exist until main dumps the list
NoManifest == [written |-> FALSE, records |-> <<>>]

\* the question-paper scripts are not running
EtlIdle ==
    /\ etlpc = "idle"
    /\ data_list = <<>>
    /\ cursor = 0
    /\ selected_questions = <<>>
    /\ type_count = <<>>
    /\ all_data = <<>>
    /\ paper_pool = <<>>
    /\ used = {}
    /\ returned = <<>>
    /\ pdfs = <<>>
    /\ pdf_i = 0

\* update_json_files has not been called
FnIdle ==
    /\ fnpc = "idle"
    /\ folder = <<>>
    /\ folder0 = <<>>
    /\ fnpos = 0
    /\ runs = 0
    /\ after_one = <<>>

\* the local `questions` of write_to_pdf before its first assignment
Unbound == [bound |-> FALSE, list |-> <<>>]

\* write_to_pdf has not been called
PdfIdle ==
    /\ story = <<>>
    /\ questions = Unbound
    /\ answers = <<>>

\* crawl.main has not been called
CrawlIdle ==
    /\ crawlpc = "idle"
    /\ resp = <<>>
    /\ data = <<>>
    /\ outdir = {}

\* the scripts outside the question generators are not running
ToolIdle == FnIdle /\ PdfIdle /\ CrawlIdle

MainIdle ==
    /\ futures = <<>>
    /\ out = <<>>
    /\ manifest = NoManifest
    /\ mainpc = "idle"

GenBlank ==
    /\ shape = ""
    /\ diff = ""
    /\ qtype = ""
    /\ dims = Dims0
    /\ tries = 0
    /\ draws = <<>>
    /\ qtext = NoText
    /\ correct = 0
    /\ pool = {}
    /\ cand = {}
    /\ iters = 0
    /\ opts = <<>>
    /\ options = NoOptions
    /\ letter = ""

Init ==
    /\ variant \in {U1, RSG}
    /\ pc = "start"
    /\ GenBlank
    /\ MainIdle
    /\ EtlIdle
    /\ ToolIdle

Next ==
    \/ GenOne
    \/ SampleDimensions
    \/ ScaleneStart
    \/ ScaleneResample
    \/ ScaleneExit
    \/ Draw
    \/ IntSample
    \/ IntReturn
    \/ SmallPick
    \/ SmallReturn

Spec == Init /\ [][Next]_vars

-----------------------------------------------------------------------------
(* Specification of the option builders called on their own *)

\* correct values the callers hand to the integer builder (a sample: the
\* rounded area 0 of the unit equilateral triangle, small sides, perimeters,
\* the largest area 100 * 100; randomAreaProblemImage passes 3 and more)
IntArguments(v) ==
    IF v = RAPI THEN {3, 8, 9, 40, 324} ELSE {0, 1, 5, 6, 7, 8, 45, 10000}

\* the (correct, pool) pairs the callers hand to the symmetry builder
SymmetryCalls(v) ==
    IF v = RAPI
    THEN {[correct |-> 4, pool |-> {0, 1, 2, 3, 4, 6}],
          [correct |-> 2, pool |-> {0, 1, 2, 3, 4}]}
    ELSE {[correct |-> Generate(v, sh, "symmetry", Dims0).correct,
           pool |-> Generate(v, sh, "symmetry", Dims0).pool] :
             sh \in SHAPES \ {"circle"}}

InitBuilder ==
    /\ variant \in {U1, RSG, RAPI}
    /\ \/ /\ pc = "int_loop"
          /\ correct \in IntArguments(variant)
          /\ pool = {}
          /\ cand = IntStart(variant, correct)
       \/ /\ pc = "small_loop"
          /\ \E call \in SymmetryCalls(variant) :
                /\ correct = call.correct
                /\ pool = call.pool \cup {call.correct}
                /\ cand = {call.correct}
    /\ shape = ""
    /\ diff = ""
    /\ qtype = ""
    /\ dims = Dims0
    /\ tries = 0
    /\ draws = <<>>
    /\ qtext = NoText
    /\ iters = 0
    /\ opts = <<>>
    /\ options = NoOptions
    /\ letter = ""
    /\ MainIdle
    /\ EtlIdle
    /\ ToolIdle

NextBuilder ==
    \/ IntSample
    \/ IntReturn
    \/ SmallPick
    \/ SmallReturn

SpecBuilder == InitBuilder /\ [][NextBuilder]_vars

-----------------------------------------------------------------------------
(* Properties of the option builders *)

LabelSet == {"A", "B", "C", "D", "E"}

\* C2: whenever an option builder has returned, the options mapping has
\* exactly the keys A..E, exactly one option value equals the correct value,
\* and the returned letter is the key of that option.
OptionsMatchCorrect ==
    pc = "done" =>
        /\ DOMAIN options = LabelSet
        /\ Cardinality({l \in LabelSet : options[l] = OptionValue(variant, correct)}) = 1
        /\ letter \in LabelSet
        /\ options[letter] = OptionValue(variant, correct)

\* a builder of each family has returned with the correct value away from "A"
OptionsReturned ==
    /\ pc = "done"
    /\ variant = RAPI
    /\ letter = "D"
    /\ pool = {}
    /\ 0 \in cand

-----------------------------------------------------------------------------
(* Properties of one generated question *)

DigitVal(ch) == CHOOSE d \in 0..9 : DigitChar(d) = ch

RECURSIVE ParseNat(_)
ParseNat(str) ==
    IF str = <<>> THEN 0
    ELSE 10 * ParseNat(SubSeq(str, 1, Len(str) - 1)) + DigitVal(str[Len(str)])

\* int(str): the integer an option string denotes
ParseInt(str) ==
    IF str /= <<>> /\ str[1] = "-" THEN -ParseNat(Tail(str)) ELSE ParseNat(str)

OptionsDistinct ==
    \A l1, l2 \in LabelSet : l1 /= l2 => options[l1] /= options[l2]

\* C1 as stated: every record of untitled1.gen_one has five pairwise distinct
\* option values, each a positive integer.
OptionsDistinctPositive ==
    (variant = U1 /\ pc = "done") =>
        /\ DOMAIN options = LabelSet
        /\ OptionsDistinct
        /\ \A l \in LabelSet : ParseInt(options[l]) > 0

\* C4 as stated, in the form a finite run decides: the symmetry builder's loop
\* ends for every (correct, pool) the shape generators pass, so in every state
\* of the loop with fewer than five values chosen some pick adds a new value.
SymmetryBuilderCanFinish ==
    (pc = "small_loop" /\ ~SmallFull(cand)) => \E x \in pool : x \notin cand

\* the labelled dimensions gen_<shape> draws and uses in the answer
UsedDims(sh, d) ==
    CASE sh \in {"square", "equilateral_triangle", "regular_hexagon", "regular_pentagon"} -> {d.s}
      [] sh = "rectangle" -> {d.w, d.h}
      [] sh = "isosceles_triangle" -> {d.base, d.height}
      [] sh = "scalene_triangle" -> {d.a, d.b, d.c}
      [] sh = "trapezium" -> {d.top, d.bottom, d.h}
      [] sh = "parallelogram" -> {d.b, d.h}
      [] sh = "circle" -> {d.r}

\* C5 as stated: every labelled dimension that is drawn and used lies within
\* the tier's inclusive range [low, high].
DimensionsWithinTier ==
    pc = "draw" => \A x \in UsedDims(shape, dims) : Lo(diff) <= x /\ x <= Hi(diff)

\* C7 as stated: every side triple the scalene generator draws and uses
\* satisfies the strict triangle inequality.
ScaleneTripleValid ==
    (pc = "draw" /\ shape = "scalene_triangle") => valid(dims)

\* C8 as stated: every side triple the scalene generator uses has three
\* pairwise distinct side lengths.
ScaleneSidesDistinct ==
    (pc = "draw" /\ shape = "scalene_triangle") =>
        Cardinality({dims.a, dims.b, dims.c}) = 3

\* C9 as stated: in a missing-dimension question every label emitted for the
\* hidden dimension is the placeholder "?", the question text states a known
\* quantity, and the correct answer is the hidden dimension's value.
HiddenDimensionOnlyPlaceholder ==
    (qtype = "missing" /\ pc \in {"int_loop", "done"}) =>
        /\ \A i \in DOMAIN draws :
              draws[i].edge = HiddenEdge(shape) => draws[i].text = Unknown
        /\ qtext.known /= ""
        /\ correct \in UsedDims(shape, dims)

-----------------------------------------------------------------------------
(* concentricShape.generate_question.  Areas are held in tenths: the source *)
(* rounds every area to one decimal place.                                  *)

difficulty_ranges == [easy |-> <<5, 15>>, medium |-> <<15, 30>>, difficult |-> <<30, 60>>]

shape_types == {"circle_in_square", "triangle_in_square", "square_in_rectangle",
                "triangle_in_rectangle", "circle_in_rectangle"}

\* whether outer_area - inner_area is a Python int (both areas are ints)
AreaIsInt(sh) == sh = "square_in_rectangle"

\* the sides one call can sample
ConcentricDims(sh, lo, hi) ==
    IF sh \in {"circle_in_square", "triangle_in_square"}
    THEN {[Dims0 EXCEPT !.s = x] : x \in RandInt(lo, hi)}
    ELSE {[Dims0 EXCEPT !.w = x, !.h = y] : x \in RandInt(lo, hi), y \in RandInt(lo, hi)}

\* round(outer_area - inner_area, 1), in tenths
ShadedArea(sh, d) ==
    CASE sh = "circle_in_square" ->
            RoundHalfEven(10 * d.s * d.s * (9 * 113 - 355), 9 * 113)
      [] sh = "triangle_in_square" -> 5 * d.s * d.s
      [] sh = "square_in_rectangle" ->
            10 * (d.w * d.h - (Min(d.w, d.h) \div 2) * (Min(d.w, d.h) \div 2))
      [] sh = "triangle_in_rectangle" -> 10 * d.w * d.h - 5 * d.w * (d.h \div 2)
      [] sh = "circle_in_rectangle" ->
            RoundHalfEven(10 * (16 * 113 * d.w * d.h - 355 * Min(d.w, d.h) * Min(d.w, d.h)),
                          16 * 113)

\* str(x) of a float with one decimal place, and of an int
FloatStr(t) == i2s(t \div 10) \o <<".", DigitChar(t % 10)>>
ValueStr(t, isint) == IF isint THEN i2s(t \div 10) ELSE FloatStr(t)

\* f"{val} cm2" with the superscript two as one character
OptionText(t, isint) == ValueStr(t, isint) \o <<" ", "c", "m", "^2">>

\* needle in hay, for strings
Contains(hay, needle) ==
    \E i \in 1..(Len(hay) - Len(needle) + 1) :
        SubSeq(hay, i, i + Len(needle) - 1) = needle

\* the offsets, in tenths, sampled from random.uniform(-0.3*correct, 0.3*correct)
\* after rounding to one decimal place
FakeOffsets(c) == {-((3 * c) \div 10), -1, 0, 1, 2, (3 * c) \div 10}

Range(seq) == {seq[i] : i \in DOMAIN seq}

\* {label: f"{val} cm2" for label, val in zip("ABCDE", option_values)}
ConcentricOptions(seq, c, isint) ==
    [l \in LabelSet |-> OptionText(seq[IndexOf(labels, l)],
                                   isint /\ seq[IndexOf(labels, l)] = c)]

\* [k for k, v in options.items() if str(correct) in v][0]
correct_label(opt, c, isint) ==
    labels[CHOOSE i \in 1..5 :
              /\ Contains(opt[labels[i]], ValueStr(c, isint))
              /\ \A j \in 1..(i - 1) : ~Contains(opt[labels[j]], ValueStr(c, isint))]

(* lines 33-80: sample the sides, compute the shaded area, start the list *)
ConcentricSample ==
    /\ variant = CONC
    /\ pc = "start"
    /\ \E sh \in shape_types, df \in DIFF_LEVELS :
          \E d \in ConcentricDims(sh, difficulty_ranges[df][1], difficulty_ranges[df][2]) :
              /\ shape' = sh
              /\ diff' = df
              /\ dims' = d
              /\ correct' = ShadedArea(sh, d)
              /\ opts' = <<ShadedArea(sh, d)>>
    /\ pc' = "fakes"
    /\ UNCHANGED <<variant, qtype, tries, draws, qtext, pool, cand, iters,
                   options, letter>>
    /\ UNCHANGED <<mainVars, etlVars, toolVars>>

(* lines 81-84: one iteration of the distractor loop *)
FakeSample ==
    /\ variant = CONC
    /\ pc = "fakes"
    /\ Len(opts) < 5
    /\ \E off \in FakeOffsets(correct) :
          opts' = IF correct + off > 0 /\ correct + off \notin Range(opts)
                  THEN Append(opts, correct + off)
                  ELSE opts
    /\ UNCHANGED <<variant, pc, shape, diff, qtype, dims, tries, draws, qtext,
                   correct, pool, cand, iters, options, letter>>
    /\ UNCHANGED <<mainVars, etlVars, toolVars>>

(* lines 85-88 and 121-127: shuffle, build the options, find the answer label *)
ConcentricReturn ==
    /\ variant = CONC
    /\ pc = "fakes"
    /\ Len(opts) >= 5
    /\ \E seq \in Shuffles(Range(opts)) :
          /\ opts' = seq
          /\ options' = ConcentricOptions(seq, correct, AreaIsInt(shape))
          /\ letter' = correct_label(ConcentricOptions(seq, correct, AreaIsInt(shape)),
                                     correct, AreaIsInt(shape))
    /\ pc' = "done"
    /\ UNCHANGED <<variant, shape, diff, qtype, dims, tries, draws, qtext,
                   correct, pool, cand, iters>>
    /\ UNCHANGED <<mainVars, etlVars, toolVars>>

InitConcentric ==
    /\ variant = CONC
    /\ pc = "start"
    /\ GenBlank
    /\ MainIdle
    /\ EtlIdle
    /\ ToolIdle

NextConcentric == ConcentricSample \/ FakeSample \/ ConcentricReturn

SpecConcentric == InitConcentric /\ [][NextConcentric]_vars

\* the number, in tenths, that an option text "<value> cm2" shows
ShownTenths(text) ==
    LET sp  == IndexOf(text, " ")
        num == SubSeq(text, 1, sp - 1)
    IN  IF \E i \in DOMAIN num : num[i] = "."
        THEN 10 * ParseNat(SubSeq(num, 1, IndexOf(num, ".") - 1))
             + DigitVal(num[IndexOf(num, ".") + 1])
        ELSE 10 * ParseNat(num)

\* C3 as stated: the label in the record's answer field is the label whose
\* option holds the computed shaded area, for every shape type, every set of
\* distractors and every shuffle.
AnswerLabelHoldsCorrect ==
    (variant = CONC /\ pc = "done") => ShownTenths(options[letter]) = correct

-----------------------------------------------------------------------------
(* The threaded batch of untitled1.main: build_one runs on a pool thread for *)
(* every index, main collects the results as they complete, sorts and writes *)

BASE_IMG_DIR == <<"i", "m", "a", "g", "e", "s">>

DiffChars(d) ==
    CASE d = "easy" -> <<"e", "a", "s", "y">>
      [] d = "medium" -> <<"m", "e", "d", "i", "u", "m">>
      [] d = "difficult" -> <<"d", "i", "f", "f", "i", "c", "u", "l", "t">>

\* the path without the question number
ImgPathOfTier(d, idx) ==
    BASE_IMG_DIR \o <<"/">> \o DiffChars(d) \o <<"/", "Q", ".", "p", "n", "g">>

\* os.path.join(BASE_IMG_DIR, diff, f"Q{idx}.png")
ImgPath(d, idx) ==
    BASE_IMG_DIR \o <<"/">> \o DiffChars(d) \o <<"/", "Q">> \o i2s(idx)
                 \o <<".", "p", "n", "g">>

\* the characters of a path in code point order
Alphabet ==
    <<".", "/", "0", "1", "2", "3", "4", "5", "6", "7", "8", "9", "Q",
      "a", "b", "c", "d", "e", "f", "g", "h", "i", "j", "k", "l", "m",
      "n", "o", "p", "q", "r", "s", "t", "u", "v", "w", "x", "y", "z">>

Ord(ch) == IndexOf(Alphabet, ch)

\* a < b for strings
StrLess(a, b) ==
    \E k \in 1..(Len(b)) :
        /\ \A j \in 1..(k - 1) : j <= Len(a) /\ a[j] = b[j]
        /\ \/ k = Len(a) + 1
           \/ k <= Len(a) /\ Ord(a[k]) < Ord(b[k])

\* the list left as it was collected
Unsorted(seq) == seq

\* a record goes behind every record whose key is not greater (stable)
InsertByPath(sorted, r) ==
    LET k == Cardinality({i \in DOMAIN sorted : ~StrLess(r.img_path, sorted[i].img_path)})
    IN  SubSeq(sorted, 1, k) \o <<r>> \o SubSeq(sorted, k + 1, Len(sorted))

\* out.sort(key=lambda r: r["img_path"])
RECURSIVE SortByPath(_)
SortByPath(seq) ==
    IF seq = <<>> THEN <<>>
    ELSE InsertByPath(SortByPath(SubSeq(seq, 1, Len(seq) - 1)), seq[Len(seq)])

NoRecord == [difficulty_level |-> "", img_path |-> <<>>]

\* the record build_one returns (its question, options and correct_answer are
\* the outcome of gen_one above)
Record(d, idx) == [difficulty_level |-> d, img_path |-> ImgPath(d, idx)]

Running == {i \in DOMAIN futures : futures[i].state = "running"}
Settled == {i \in DOMAIN futures : futures[i].state \in {"done", "failed"}}

\* as_completed has yielded every future
SomeCollected == Len(out) >= 1
AllCollected == Len(out) = NumQuestions

(* line 568: ex.submit(build_one, i) for the next index *)
MainSubmit ==
    /\ mainpc = "submit"
    /\ Len(futures) < NumQuestions
    /\ futures' = Append(futures, [state |-> "queued", yielded |-> 0,
                                   result |-> NoRecord])
    /\ UNCHANGED <<out, manifest, mainpc>>
    /\ UNCHANGED <<genVars, etlVars, toolVars>>

(* line 569: every task is submitted, main starts to iterate as_completed *)
MainIterate ==
    /\ mainpc = "submit"
    /\ Len(futures) = NumQuestions
    /\ mainpc' = "collect"
    /\ UNCHANGED <<futures, out, manifest>>
    /\ UNCHANGED <<genVars, etlVars, toolVars>>

(* a free pool thread takes the oldest queued task *)
WorkerStart ==
    /\ Cardinality(Running) < PoolThreads
    /\ \E i \in DOMAIN futures :
          /\ futures[i].state = "queued"
          /\ \A j \in 1..(i - 1) : futures[j].state /= "queued"
          /\ futures' = [futures EXCEPT ![i].state = "running"]
    /\ UNCHANGED <<out, manifest, mainpc>>
    /\ UNCHANGED <<genVars, etlVars, toolVars>>

(* lines 536-557: build_one(idx) returns its record *)
WorkerFinish ==
    /\ \E i \in Running, d \in DIFF_LEVELS :
          futures' = [futures EXCEPT ![i].state = "done", ![i].result = Record(d, i)]
    /\ UNCHANGED <<out, manifest, mainpc>>
    /\ UNCHANGED <<genVars, etlVars, toolVars>>

(* build_one(idx) raises: the exception is stored in the future *)
WorkerFail ==
    /\ \E i \in Running : futures' = [futures EXCEPT ![i].state = "failed"]
    /\ UNCHANGED <<out, manifest, mainpc>>
    /\ UNCHANGED <<genVars, etlVars, toolVars>>

(* lines 569-570: as_completed yields a finished future, out.append(f.result()) *)
MainCollect ==
    /\ mainpc = "collect"
    /\ \E i \in DOMAIN futures :
          /\ futures[i].state = "done"
          /\ futures[i].yielded = 0
          /\ futures' = [futures EXCEPT ![i].yielded = Len(out) + 1]
          /\ out' = Append(out, futures[i].result)
    /\ UNCHANGED <<manifest, mainpc>>
    /\ UNCHANGED <<genVars, etlVars, toolVars>>

(* line 570: f.result() of a failed future raises inside the with block *)
MainRaise ==
    /\ mainpc = "collect"
    /\ \E i \in DOMAIN futures :
          /\ futures[i].state = "failed"
          /\ futures[i].yielded = 0
          /\ futures' = [futures EXCEPT ![i].yielded = Len(out) + 1]
    /\ mainpc' = "shutdown"
    /\ UNCHANGED <<out, manifest>>
    /\ UNCHANGED <<genVars, etlVars, toolVars>>

(* the with block waits for every task, then the exception leaves main *)
MainShutdown ==
    /\ mainpc = "shutdown"
    /\ Settled = DOMAIN futures
    /\ mainpc' = "raised"
    /\ UNCHANGED <<futures, out, manifest>>
    /\ UNCHANGED <<genVars, etlVars, toolVars>>

(* lines 573-576: the loop is over; sort by img_path and dump the manifest *)
MainWrite ==
    /\ mainpc = "collect"
    /\ AllCollected
    /\ out' = SortByPath(out)
    /\ manifest' = [written |-> TRUE, records |-> SortByPath(out)]
    /\ mainpc' = "written"
    /\ UNCHANGED futures
    /\ UNCHANGED <<genVars, etlVars, toolVars>>

InitMain ==
    /\ variant = U1
    /\ pc = "start"
    /\ GenBlank
    /\ futures = <<>>
    /\ out = <<>>
    /\ manifest = NoManifest
    /\ mainpc = "submit"
    /\ EtlIdle
    /\ ToolIdle

NextMain ==
    \/ MainSubmit
    \/ MainIterate
    \/ WorkerStart
    \/ WorkerFinish
    \/ WorkerFail
    \/ MainCollect
    \/ MainRaise
    \/ MainShutdown
    \/ MainWrite

SpecMain == InitMain /\ [][NextMain]_vars

\* the question number in "images/<diff>/Q<idx>.png"
QIndex(path) ==
    ParseNat(SubSeq(path, IndexOf(path, "Q") + 1, IndexOf(path, ".") - 1))

\* C10: the manifest is written only after every submitted worker task has
\* completed, and it holds exactly one record for each index 1..questionVolume.
ManifestAfterAllWorkers ==
    manifest.written =>
        /\ Len(futures) = NumQuestions
        /\ \A i \in DOMAIN futures : futures[i].state = "done"
        /\ Len(manifest.records) = NumQuestions
        /\ \A k \in 1..NumQuestions :
              Cardinality({j \in DOMAIN manifest.records :
                              QIndex(manifest.records[j].img_path) = k}) = 1

\* a manifest that was written with the last question's record in front
ManifestWritten ==
    /\ mainpc = "written"
    /\ manifest.written
    /\ QIndex(manifest.records[1].img_path) = NumQuestions
    /\ out = manifest.records

\* the records of the finished tasks, listed by question index
RecordsByIndex == [i \in DOMAIN futures |-> futures[i].result]

\* the position of question k's record in the manifest
ManifestPosition(k) ==
    CHOOSE j \in DOMAIN manifest.records : QIndex(manifest.records[j].img_path) = k

\* C11: the order of the records in the written manifest depends on the records
\* only: it is the same list for every order in which the tasks completed and
\* were collected.
ManifestOrderFixedByRecords ==
    manifest.written => manifest.records = SortByPath(RecordsByIndex)

\* a manifest whose order differs from the order the results were collected in
CollectedInAnotherOrder ==
    /\ manifest.written
    /\ \E i, j \in DOMAIN futures :
          /\ futures[i].yielded < futures[j].yielded
          /\ ManifestPosition(i) > ManifestPosition(j)

\* C12 as stated: the manifest is ordered by question number, whatever tiers
\* the questions drew.
ManifestOrderedByNumber ==
    manifest.written =>
        \A i, j \in 1..NumQuestions : i < j => ManifestPosition(i) < ManifestPosition(j)

\* C13: any two distinct question indices get different image paths, whatever
\* tier each worker drew.
ImagePathsDistinct ==
    /\ \A i, j \in DOMAIN futures :
          (i /= j /\ futures[i].state = "done" /\ futures[j].state = "done")
             => futures[i].result.img_path /= futures[j].result.img_path
    /\ mainpc = "submit" =>
          \A i, j \in 1..PathIndices, d1, d2 \in DIFF_LEVELS :
             i /= j => ImgPath(d1, i) /= ImgPath(d2, j)

\* two workers that drew the same tier have both written their image
SameTierTwice ==
    \E i, j \in DOMAIN futures :
        /\ i /= j
        /\ futures[i].state = "done"
        /\ futures[j].state = "done"
        /\ futures[i].result.difficulty_level = futures[j].result.difficulty_level

\* C15 as stated, in the form a finite run decides: a failure of build_one for
\* one index never makes main leave the collection loop with an exception
\* (after which the manifest is not written).
FailureDoesNotAbortBatch ==
    (\E i \in DOMAIN futures : futures[i].state = "failed") =>
        mainpc \notin {"shutdown", "raised"}

-----------------------------------------------------------------------------
(* gen_one called directly with arbitrary shape and tier names *)

CallShapes == {"square", "circle", "hexagram"}
CallTiers == {"easy", "expert"}

(* line 508: rng = DIFF_RANGES[diff] raises KeyError for an unknown tier *)
GenOneLookupFails ==
    /\ pc = "call"
    /\ diff \notin DIFF_LEVELS
    /\ pc' = "KeyError"
    /\ UNCHANGED <<variant, shape, diff, qtype, dims, tries, draws, qtext, correct,
                   pool, cand, iters, opts, options, letter>>
    /\ UNCHANGED <<mainVars, etlVars, toolVars>>

(* line 509: the question type is chosen, then the dispatch on the name *)
GenOneDispatch ==
    /\ pc = "call"
    /\ diff \in DIFF_LEVELS
    /\ qtype' \in QuestionTypes(shape)
    /\ pc' = "sample"
    /\ UNCHANGED <<variant, shape, diff, dims, tries, draws, qtext, correct,
                   pool, cand, iters, opts, options, letter>>
    /\ UNCHANGED <<mainVars, etlVars, toolVars>>

InitDispatch ==
    /\ variant \in {U1, RSG}
    /\ pc = "call"
    /\ shape \in CallShapes
    /\ diff \in CallTiers
    /\ qtype = ""
    /\ dims = Dims0
    /\ tries = 0
    /\ draws = <<>>
    /\ qtext = NoText
    /\ correct = 0
    /\ pool = {}
    /\ cand = {}
    /\ iters = 0
    /\ opts = <<>>
    /\ options = NoOptions
    /\ letter = ""
    /\ MainIdle
    /\ EtlIdle
    /\ ToolIdle

NextDispatch ==
    \/ GenOneLookupFails
    \/ GenOneDispatch
    \/ SampleDimensions
    \/ Draw
    \/ IntSample
    \/ IntReturn
    \/ SmallPick
    \/ SmallReturn

SpecDispatch == InitDispatch /\ [][NextDispatch]_vars

InvalidCall == shape \notin SHAPES \/ diff \notin DIFF_LEVELS

-----------------------------------------------------------------------------
(* Properties of the answers of untitled1.py / randomShapeGenerator.py *)

Built == pc \in {"int_loop", "small_loop", "done"}

NgonSides(sh) == IF sh = "regular_pentagon" THEN 5 ELSE 6

\* C16 as stated: in a missing-dimension question the known quantity stated in
\* the text equals the shape's formula at the shown dimensions and the hidden
\* (correct) value.
MissingRoundTrips ==
    (Built /\ qtype = "missing") =>
        CASE shape = "square" -> qtext.value = correct * correct
          [] shape = "rectangle" -> qtext.value = correct * dims.h
          [] shape = "parallelogram" -> qtext.value = correct * dims.h
          [] shape = "isosceles_triangle" -> 2 * qtext.value = dims.base * correct
          [] shape = "trapezium" -> 2 * qtext.value = (dims.top + dims.bottom) * correct
          [] shape = "scalene_triangle" -> qtext.value = correct + dims.b + dims.c
          [] shape \in {"regular_pentagon", "regular_hexagon"} ->
                qtext.value = NgonSides(shape) * correct
          [] OTHER -> TRUE

\* the reference formulas with integer values
ReferenceValue(sh, q, d) ==
    CASE sh = "square" /\ q = "area" -> d.s * d.s
      [] sh = "square" /\ q = "perimeter" -> 4 * d.s
      [] sh = "rectangle" /\ q = "area" -> d.w * d.h
      [] sh = "rectangle" /\ q = "perimeter" -> 2 * (d.w + d.h)
      [] sh = "equilateral_triangle" /\ q = "perimeter" -> 3 * d.s
      [] sh = "scalene_triangle" /\ q = "perimeter" -> d.a + d.b + d.c
      [] sh = "parallelogram" /\ q = "area" -> d.b * d.h
      [] sh \in {"regular_pentagon", "regular_hexagon"} /\ q = "perimeter" ->
            NgonSides(sh) * d.s

HasReference(sh, q) ==
    \/ sh \in {"square", "rectangle"} /\ q \in {"area", "perimeter"}
    \/ sh \in {"equilateral_triangle", "scalene_triangle", "regular_pentagon",
               "regular_hexagon"} /\ q = "perimeter"
    \/ sh = "parallelogram" /\ q = "area"

\* C17: for the integer-valued formulas the correct value handed to option
\* assembly is the reference formula at the sampled dimensions, and evaluating
\* the generator again at the same dimensions gives the same value.
IntegerFormulasExact ==
    (Built /\ HasReference(shape, qtype)) =>
        /\ correct = ReferenceValue(shape, qtype, dims)
        /\ Generate(variant, shape, qtype, dims).correct = correct
        /\ pc = "done" => ParseInt(options[letter]) = ReferenceValue(shape, qtype, dims)

\* the record of the area question of a square of side 9
SquareAreaRecord ==
    /\ pc = "done"
    /\ shape = "square"
    /\ qtype = "area"
    /\ dims.s = 9
    /\ options[letter] = <<"8", "1">>

\* C18: gen_one never selects the question type symmetry for the circle, and
\* gen_circle returns an area, circumference or missing-radius question for
\* every question type it can be called with.
CircleHasNoSymmetry ==
    shape = "circle" =>
        /\ qtype /= "symmetry"
        /\ Built =>
              /\ pc /= "small_loop"
              /\ pool = {}
              /\ qtext.ask \in {"area", "circumference", "radius"}
        /\ pc = "draw" =>
              \A q \in Q_TYPES :
                 /\ gen_circle(q, dims).builder = "int"
                 /\ gen_circle(q, dims).qtext.ask \in {"area", "circumference", "radius"}

\* the record of a missing-radius question
CircleRadiusRecord ==
    /\ shape = "circle"
    /\ pc = "done"
    /\ qtype = "missing"
    /\ qtext.ask = "radius"
    /\ ParseInt(options[letter]) = dims.r

-----------------------------------------------------------------------------
(* etlPythonEnh.filter_and_sample_questions *)

CLASSIFICATIONS ==
    <<<<"A", "l", "g", "e", "b", "r", "a">>,
      <<"A", "r", "i", "t", "h", "m", "e", "t", "i", "c">>,
      <<"C", "o", "m", "b", "i", "n", "a", "t", "o", "r", "i", "c", "s">>,
      <<"D", "e", "c", "i", "m", "a", "l", "s">>,
      <<"F", "r", "a", "c", "t", "i", "o", "n", "s">>,
      <<"G", "e", "o", "m", "e", "t", "r", "y">>,
      <<"M", "e", "a", "s", "u", "r", "e", "m", "e", "n", "t">>,
      <<"P", "e", "r", "c", "e", "n", "t", "a", "g", "e", "s">>,
      <<"P", "r", "o", "b", "a", "b", "i", "l", "i", "t", "y">>,
      <<"R", "a", "t", "i", "o", " ", "&", " ", "P", "r", "o", "p", "o", "r", "t", "i", "o", "n">>,
      <<"S", "e", "t", " ", "t", "h", "e", "o", "r", "y">>,
      <<"S", "p", "e", "e", "d", ",", " ", "D", "i", "s", "t", "a", "n", "c", "e", " ", "&", " ", "T", "i", "m", "e">>,
      <<"S", "t", "a", "t", "i", "s", "t", "i", "c", "s">>>>

UpperCase == <<"A", "B", "C", "D", "E", "F", "G", "H", "I", "J", "K", "L", "M",
               "N", "O", "P", "Q", "R", "S", "T", "U", "V", "W", "X", "Y", "Z">>
LowerCase == <<"a", "b", "c", "d", "e", "f", "g", "h", "i", "j", "k", "l", "m",
               "n", "o", "p", "q", "r", "s", "t", "u", "v", "w", "x", "y", "z">>

\* str.lower()
LowerOf == [ch \in {UpperCase[i] : i \in 1..26} |->
                LowerCase[CHOOSE i \in 1..26 : UpperCase[i] = ch]]
LowerChar(ch) == IF ch \in DOMAIN LowerOf THEN LowerOf[ch] ELSE ch
Lower(str) == [i \in DOMAIN str |-> LowerChar(str[i])]

\* str.strip()
RECURSIVE Strip(_)
Strip(str) ==
    IF str = <<>> THEN str
    ELSE IF Head(str) = " " THEN Strip(Tail(str))
    ELSE IF str[Len(str)] = " " THEN Strip(SubSeq(str, 1, Len(str) - 1))
    ELSE str

\* str.startswith(prefix)
StartsWith(str, prefix) ==
    Len(prefix) <= Len(str) /\ SubSeq(str, 1, Len(prefix)) = prefix

\* qtype.lower().startswith(cls.lower()) for qtype = item.get("type", "").strip()
TypeMatches(item, c) ==
    StartsWith(Lower(Strip(item.type)), Lower(CLASSIFICATIONS[c]))

\* the first matching classification, whether it is full or not
FirstMatching(item, counts) ==
    IF \E c \in DOMAIN CLASSIFICATIONS : TypeMatches(item, c)
    THEN CHOOSE c \in DOMAIN CLASSIFICATIONS :
            TypeMatches(item, c) /\ \A b \in 1..(c - 1) : ~TypeMatches(item, b)
    ELSE 0

\* the classification an item is counted under: the first one in list order
\* that matches and is not full; 0 when the inner loop ends without a break
CountedUnder(item, counts) ==
    IF \E c \in DOMAIN CLASSIFICATIONS : TypeMatches(item, c) /\ counts[c] < MAX_PER_TYPE
    THEN CHOOSE c \in DOMAIN CLASSIFICATIONS :
            /\ TypeMatches(item, c) /\ counts[c] < MAX_PER_TYPE
            /\ \A b \in 1..(c - 1) : ~(TypeMatches(item, b) /\ counts[b] < MAX_PER_TYPE)
    ELSE 0

\* an item of the parsed input; a missing "type" key reads as the empty string
Item(n, t) == [id |-> n, type |-> t]

\* inputs: a large one that fills almost every classification, and a small one
\* with upper case, padding, subtopics, unknown and missing types
ManyInput ==
    [k \in 1..ManyItems |->
        Item(k, CLASSIFICATIONS[((k - 1) % Len(CLASSIFICATIONS)) + 1]
                \o (IF k % 2 = 0 THEN <<" ", "-", " ", "x">> ELSE <<>>))]

FewInput ==
    <<Item(1, <<"A", "L", "G", "E", "B", "R", "A">>),
      Item(2, <<" ", "a", "l", "g", "e", "b", "r", "a", " ">>),
      Item(3, <<"A", "l", "g", "e", "b", "r", "a", "i", "c">>),
      Item(4, <<"A", "l", "g", "e", "b", "r", "a", " ", "-", " ", "x">>),
      Item(5, <<"a", "l", "g", "e", "b", "r", "a">>),
      Item(6, <<"A", "l", "g", "e", "b", "r">>),
      Item(7, <<>>),
      Item(8, <<"L", "o", "g", "i", "c">>),
      Item(9, <<"s", "e", "t", " ", "T", "H", "E", "O", "R", "Y">>),
      Item(10, <<"S", "e", "t", "s">>)>>

FilterInputs == {ManyInput, FewInput, <<>>}

Rotations(seq) == {Rotate(seq, k) : k \in 0..(Len(seq) - 1)} \cup {seq}

(* lines 53-57: the locals are set up and the input is shuffled in place *)
FilterShuffle ==
    /\ etlpc = "filter_start"
    /\ data_list' \in Rotations(data_list)
    /\ selected_questions' = <<>>
    /\ type_count' = [c \in DOMAIN CLASSIFICATIONS |-> 0]
    /\ cursor' = 1
    /\ etlpc' = "filter_loop"
    /\ UNCHANGED <<all_data, paper_pool, used, returned, pdfs, pdf_i>>
    /\ UNCHANGED <<genVars, mainVars, toolVars>>

(* lines 59-70: one iteration of the loop over the items *)
FilterStep ==
    /\ etlpc = "filter_loop"
    /\ cursor <= Len(data_list)
    /\ LET item == data_list[cursor]
           c    == CountedUnder(item, type_count)
           sel  == IF c = 0 THEN selected_questions
                   ELSE Append(selected_questions, item)
       IN  /\ selected_questions' = sel
           /\ type_count' = IF c = 0 THEN type_count
                            ELSE [type_count EXCEPT ![c] = @ + 1]
           /\ IF Len(sel) >= TOTAL_QUESTIONS
              THEN etlpc' = "filter_done" /\ cursor' = cursor
              ELSE etlpc' = etlpc /\ cursor' = cursor + 1
    /\ UNCHANGED <<data_list, all_data, paper_pool, used, returned, pdfs, pdf_i>>
    /\ UNCHANGED <<genVars, mainVars, toolVars>>

(* lines 72-77: the loop ran out of items; the selection is returned *)
FilterReturn ==
    /\ etlpc = "filter_loop"
    /\ cursor > Len(data_list)
    /\ etlpc' = "filter_done"
    /\ UNCHANGED <<data_list, cursor, selected_questions, type_count,
                   all_data, paper_pool, used, returned, pdfs, pdf_i>>
    /\ UNCHANGED <<genVars, mainVars, toolVars>>

\* no generator and no batch is running
GenIdle ==
    /\ variant = ""
    /\ pc = "idle"
    /\ GenBlank
    /\ MainIdle

InitFilter ==
    /\ GenIdle
    /\ ToolIdle
    /\ etlpc = "filter_start"
    /\ data_list \in FilterInputs
    /\ cursor = 0
    /\ selected_questions = <<>>
    /\ type_count = <<>>
    /\ all_data = <<>>
    /\ paper_pool = <<>>
    /\ used = {}
    /\ returned = <<>>
    /\ pdfs = <<>>
    /\ pdf_i = 0

NextFilter == FilterShuffle \/ FilterStep \/ FilterReturn

SpecFilter == InitFilter /\ [][NextFilter]_vars

RECURSIVE SumTo(_, _)
SumTo(f, n) == IF n = 0 THEN 0 ELSE f[n] + SumTo(f, n - 1)

\* C19: at every step of filter_and_sample_questions at most TOTAL_QUESTIONS
\* items are selected, at most MAX_PER_TYPE per classification, every input
\* item at most once, every selected item's type starts (case-insensitively)
\* with the classification it is counted under, and the number of selected
\* items is the sum of the counters.
SelectionWithinLimits ==
    etlpc \in {"filter_loop", "filter_done"} =>
        /\ Len(selected_questions) <= TOTAL_QUESTIONS
        /\ \A c \in DOMAIN CLASSIFICATIONS :
              /\ type_count[c] <= MAX_PER_TYPE
              /\ type_count[c] =
                    Cardinality({k \in DOMAIN selected_questions :
                                    TypeMatches(selected_questions[k], c)})
        /\ \A j, k \in DOMAIN selected_questions :
              j /= k => selected_questions[j].id /= selected_questions[k].id
        /\ \A k \in DOMAIN selected_questions :
              \E j \in 1..cursor : j <= Len(data_list) /\ data_list[j] = selected_questions[k]
        /\ Len(selected_questions) = SumTo(type_count, Len(CLASSIFICATIONS))

\* the selection stopped at the total with one classification left short
TotalReached ==
    /\ etlpc = "filter_done"
    /\ Len(selected_questions) = TOTAL_QUESTIONS
    /\ cursor < Len(data_list)
    /\ \E c \in DOMAIN CLASSIFICATIONS : type_count[c] < MAX_PER_TYPE

-----------------------------------------------------------------------------
(* etlPythonEnh_topic_sample_paper: select_questions, create_multiple_pdfs *)

\* a parsed question; `has` is FALSE when the "question" key is absent
Question(n, text) == [id |-> n, has |-> TRUE, question |-> text]
Untexted(n) == [id |-> n, has |-> FALSE, question |-> 0]

\* q.get('question')
GetQuestion(q) == [none |-> ~q.has, text |-> q.question]

\* json.dumps(v, sort_keys=True, ensure_ascii=False) of a text or of None
json_dumps(v) == IF v.none THEN <<"null", 0>> ELSE <<"string", v.text>>

\* hashlib.md5(...).hexdigest(): one digest per dumped string
md5(str) == <<"md5", str>>

question_signature(v) == md5(json_dumps(v))

\* inputs: n questions with distinct texts, n questions whose texts repeat
\* after TOTAL_PER_PDF + 10 items, and n questions of which every seventh has
\* no text
DistinctTexts(n) == [k \in 1..n |-> Question(k, k)]
RepeatedTexts(n) == [k \in 1..n |-> Question(k, ((k - 1) % (TOTAL_PER_PDF + 10)) + 1)]
MissingTexts(n) == [k \in 1..n |-> IF k % 7 = 0 THEN Untexted(k) ELSE Question(k, k)]

PaperSizes == {0, 5, 20, 25, 40, 45, 50, 80, MaxQuestions}

PaperInputs ==
    {DistinctTexts(n) : n \in PaperSizes}
        \cup {RepeatedTexts(45), MissingTexts(50)}

\* the used set as it was before the batch
UsedUnchanged(u, sigs) == u

\* lines 557-558: used.add(sig) for every signature of the batch
MarkUsed(u, sigs) == u \cup sigs

\* line 533: the pool entries whose signature is not used, in pool order
Unused(entries, u) == SelectSeq(entries, LAMBDA e : e[1] \notin u)

\* line 534: selected[:count]
FirstN(seq, n) == SubSeq(seq, 1, Min(n, Len(seq)))

\* line 562: the orders random.shuffle may leave the batch in (a sample)
ShuffledBatches(seq) == {Rotate(seq, k) : k \in 0..(Min(ShuffleSamples, Len(seq)) - 1)}

(* create_multiple_pdfs, lines 568-590: nothing to do on an empty input;
   otherwise a fresh used set and the first pass of the loop *)
PaperStart ==
    /\ etlpc = "paper_start"
    /\ IF Len(all_data) = 0
       THEN etlpc' = "paper_done" /\ cursor' = cursor
       ELSE etlpc' = "paper_scan" /\ cursor' = 1
    /\ used' = {}
    /\ pdf_i' = 0
    /\ UNCHANGED <<data_list, selected_questions, type_count,
                   all_data, paper_pool, returned, pdfs>>
    /\ UNCHANGED <<genVars, mainVars, toolVars>>

(* select_questions, lines 513-525: one question of all_data is looked at *)
PaperScan ==
    /\ etlpc = "paper_scan"
    /\ cursor <= Len(all_data)
    /\ LET q   == all_data[cursor]
           sig == question_signature(GetQuestion(q))
       IN  paper_pool' = IF sig \notin used THEN Append(paper_pool, <<sig, q>>)
                         ELSE paper_pool
    /\ cursor' = cursor + 1
    /\ UNCHANGED <<etlpc, data_list, selected_questions, type_count,
                   all_data, used, returned, pdfs, pdf_i>>
    /\ UNCHANGED <<genVars, mainVars, toolVars>>

\* lines 533-534
TempList == FirstN(Unused(paper_pool, used), SelectCount)

(* select_questions, lines 533-538: unpacking the zip of an empty temp_list
   finds no values *)
PaperSelectFails ==
    /\ etlpc = "paper_scan"
    /\ cursor > Len(all_data)
    /\ TempList = <<>>
    /\ etlpc' = "ValueError"
    /\ UNCHANGED <<data_list, cursor, selected_questions, type_count,
                   all_data, paper_pool, used, returned, pdfs, pdf_i>>
    /\ UNCHANGED <<genVars, mainVars, toolVars>>

(* select_questions, lines 533-563: the batch is cut, marked used, shuffled
   and returned *)
PaperSelectReturns ==
    /\ etlpc = "paper_scan"
    /\ cursor > Len(all_data)
    /\ TempList /= <<>>
    /\ LET signatures == [k \in DOMAIN TempList |-> TempList[k][1]]
           selection  == [k \in DOMAIN TempList |-> TempList[k][2]]
       IN  /\ used' = MarkUsed(used, Range(signatures))
           /\ \E batch \in ShuffledBatches(selection) :
                 returned' = Append(returned, batch)
    /\ etlpc' = "paper_batch"
    /\ UNCHANGED <<data_list, cursor, selected_questions, type_count,
                   all_data, paper_pool, pdfs, pdf_i>>
    /\ UNCHANGED <<genVars, mainVars, toolVars>>

(* create_multiple_pdfs, lines 610-612: an incomplete batch ends the loop *)
PaperSkip ==
    /\ etlpc = "paper_batch"
    /\ Len(returned[Len(returned)]) < 20
    /\ etlpc' = "paper_done"
    /\ UNCHANGED <<data_list, cursor, selected_questions, type_count,
                   all_data, paper_pool, used, returned, pdfs, pdf_i>>
    /\ UNCHANGED <<genVars, mainVars, toolVars>>

(* create_multiple_pdfs, lines 614-622: the batch is written as PDF i + 1 and
   the loop goes on while i stays in range(4) *)
PaperWrite ==
    /\ etlpc = "paper_batch"
    /\ Len(returned[Len(returned)]) >= 20
    /\ pdfs' = Append(pdfs, [number |-> pdf_i + 1, batch |-> returned[Len(returned)]])
    /\ pdf_i' = pdf_i + 1
    /\ IF pdf_i + 1 < PdfRange
       THEN etlpc' = "paper_scan" /\ cursor' = 1
       ELSE etlpc' = "paper_done" /\ cursor' = cursor
    /\ UNCHANGED <<data_list, selected_questions, type_count,
                   all_data, paper_pool, used, returned>>
    /\ UNCHANGED <<genVars, mainVars, toolVars>>

InitPaper ==
    /\ GenIdle
    /\ ToolIdle
    /\ etlpc = "paper_start"
    /\ data_list = <<>>
    /\ cursor = 0
    /\ selected_questions = <<>>
    /\ type_count = <<>>
    /\ all_data \in PaperInputs
    /\ paper_pool = <<>>
    /\ used = {}
    /\ returned = <<>>
    /\ pdfs = <<>>
    /\ pdf_i = 0

NextPaper ==
    \/ PaperStart
    \/ PaperScan
    \/ PaperSelectFails
    \/ PaperSelectReturns
    \/ PaperSkip
    \/ PaperWrite

SpecPaper == InitPaper /\ [][NextPaper]_vars

\* the signatures of the questions of one returned batch
BatchSignatures(batch) ==
    {question_signature(GetQuestion(batch[k])) : k \in DOMAIN batch}

\* C20: across the calls of select_questions of one run of
\* create_multiple_pdfs, no question (by the signature of its question text)
\* is returned by more than one call.
NoQuestionInTwoBatches ==
    \A c1, c2 \in DOMAIN returned :
        c1 < c2 => BatchSignatures(returned[c1]) \cap BatchSignatures(returned[c2]) = {}

\* a second batch was returned although a text of the first batch occurs in
\* another question of the input that the first batch left out
SecondBatchWithRepeatedText ==
    /\ Len(returned) >= 2
    /\ Len(returned[2]) > 0
    /\ \E k \in DOMAIN all_data :
          /\ all_data[k] \notin Range(returned[1])
          /\ question_signature(GetQuestion(all_data[k])) \in BatchSignatures(returned[1])

-----------------------------------------------------------------------------
(* fnumberParameter.update_json_files *)

\* the key prefixes and their values, in the order of the dictionary
fileDict ==
    <<[key |-> <<"t", "w", "o">>, value |-> 2],
      [key |-> <<"t", "h", "r", "e", "e">>, value |-> 3],
      [key |-> <<"f", "o", "u", "r">>, value |-> 4],
      [key |-> <<"f", "i", "v", "e">>, value |-> 5],
      [key |-> <<"s", "i", "x">>, value |-> 6],
      [key |-> <<"s", "e", "v", "e", "n">>, value |-> 7],
      [key |-> <<"n", "i", "n", "e">>, value |-> 9],
      [key |-> <<"t", "e", "n">>, value |-> 10],
      [key |-> <<"e", "l", "e", "v", "e", "n">>, value |-> 11],
      [key |-> <<"t", "w", "e", "l", "v", "e">>, value |-> 12],
      [key |-> <<"t", "h", "i", "r", "t", "e", "e", "n">>, value |-> 13],
      [key |-> <<"f", "o", "u", "r", "t", "e", "e", "n">>, value |-> 14],
      [key |-> <<"f", "i", "f", "t", "e", "e", "n">>, value |-> 15],
      [key |-> <<"s", "i", "x", "t", "e", "e", "n">>, value |-> 16],
      [key |-> <<"e", "i", "g", "h", "t", "e", "e", "n">>, value |-> 18],
      [key |-> <<"n", "i", "n", "e", "t", "e", "e", "n">>, value |-> 19],
      [key |-> <<"t", "w", "e", "n", "t", "y">>, value |-> 20],
      [key |-> <<"t", "w", "e", "n", "t", "y", "o", "n", "e">>, value |-> 21],
      [key |-> <<"t", "w", "e", "n", "t", "y", "t", "w", "o">>, value |-> 22],
      [key |-> <<"t", "w", "e", "n", "t", "y", "t", "h", "r", "e", "e">>, value |-> 23],
      [key |-> <<"t", "w", "e", "n", "t", "y", "f", "o", "u", "r">>, value |-> 24],
      [key |-> <<"t", "w", "e", "n", "t", "y", "s", "i", "x">>, value |-> 26],
      [key |-> <<"t", "w", "e", "n", "t", "y", "s", "e", "v", "e", "n">>, value |-> 27],
      [key |-> <<"t", "w", "e", "n", "t", "y", "e", "i", "g", "h", "t">>, value |-> 28],
      [key |-> <<"t", "w", "e", "n", "t", "y", "n", "i", "n", "e">>, value |-> 29],
      [key |-> <<"t", "h", "i", "r", "t", "y">>, value |-> 30],
      [key |-> <<"t", "h", "i", "r", "t", "y", "o", "n", "e">>, value |-> 31],
      [key |-> <<"t", "h", "i", "r", "t", "y", "t", "w", "o">>, value |-> 32],
      [key |-> <<"t", "h", "i", "r", "t", "y", "t", "h", "r", "e", "e">>, value |-> 33],
      [key |-> <<"t", "h", "i", "r", "t", "y", "f", "o", "u", "r">>, value |-> 34],
      [key |-> <<"t", "h", "i", "r", "t", "y", "f", "i", "v", "e">>, value |-> 35],
      [key |-> <<"t", "h", "i", "r", "t", "y", "s", "i", "x">>, value |-> 36],
      [key |-> <<"t", "h", "i", "r", "t", "y", "e", "i", "g", "h", "t">>, value |-> 38],
      [key |-> <<"t", "h", "i", "r", "t", "y", "n", "i", "n", "e">>, value |-> 39],
      [key |-> <<"f", "o", "r", "t", "y">>, value |-> 40],
      [key |-> <<"f", "o", "r", "t", "y", "o", "n", "e">>, value |-> 41],
      [key |-> <<"f", "o", "r", "t", "y", "t", "w", "o">>, value |-> 42],
      [key |-> <<"f", "o", "r", "t", "y", "t", "h", "r", "e", "e">>, value |-> 43],
      [key |-> <<"f", "o", "r", "t", "y", "s", "i", "x">>, value |-> 46],
      [key |-> <<"f", "o", "r", "t", "y", "s", "e", "v", "e", "n">>, value |-> 47],
      [key |-> <<"f", "o", "r", "t", "y", "n", "i", "n", "e">>, value |-> 49],
      [key |-> <<"f", "i", "f", "t", "y">>, value |-> 50],
      [key |-> <<"f", "i", "f", "t", "y", "o", "n", "e">>, value |-> 51],
      [key |-> <<"f", "i", "f", "t", "y", "t", "w", "o">>, value |-> 52],
      [key |-> <<"f", "i", "f", "t", "y", "t", "h", "r", "e", "e">>, value |-> 53],
      [key |-> <<"f", "i", "f", "t", "y", "f", "o", "u", "r">>, value |-> 54],
      [key |-> <<"f", "i", "f", "t", "y", "f", "i", "v", "e">>, value |-> 55],
      [key |-> <<"f", "i", "f", "t", "y", "s", "e", "v", "e", "n">>, value |-> 57],
      [key |-> <<"f", "i", "f", "t", "y", "n", "i", "n", "e">>, value |-> 59],
      [key |-> <<"s", "i", "x", "t", "y">>, value |-> 60],
      [key |-> <<"s", "i", "x", "t", "y", "o", "n", "e">>, value |-> 61],
      [key |-> <<"s", "i", "x", "t", "y", "f", "o", "u", "r">>, value |-> 64],
      [key |-> <<"s", "i", "x", "t", "y", "f", "i", "v", "e">>, value |-> 65],
      [key |-> <<"s", "i", "x", "t", "y", "s", "i", "x">>, value |-> 66],
      [key |-> <<"s", "i", "x", "t", "y", "s", "e", "v", "e", "n">>, value |-> 67],
      [key |-> <<"s", "i", "x", "t", "y", "e", "i", "g", "h", "t">>, value |-> 68],
      [key |-> <<"s", "i", "x", "t", "y", "n", "i", "n", "e">>, value |-> 69],
      [key |-> <<"s", "e", "v", "e", "n", "t", "y">>, value |-> 70],
      [key |-> <<"s", "e", "v", "e", "n", "t", "y", "o", "n", "e">>, value |-> 71],
      [key |-> <<"s", "e", "v", "e", "n", "t", "y", "t", "w", "o">>, value |-> 72],
      [key |-> <<"s", "e", "v", "e", "n", "t", "y", "f", "o", "u", "r">>, value |-> 74],
      [key |-> <<"s", "e", "v", "e", "n", "t", "y", "f", "i", "v", "e">>, value |-> 75],
      [key |-> <<"s", "e", "v", "e", "n", "t", "y", "s", "i", "x">>, value |-> 76],
      [key |-> <<"s", "e", "v", "e", "n", "t", "y", "s", "e", "v", "e", "n">>, value |-> 77],
      [key |-> <<"s", "e", "v", "e", "n", "t", "y", "e", "i", "g", "h", "t">>, value |-> 78],
      [key |-> <<"s", "e", "v", "e", "n", "t", "y", "n", "i", "n", "e">>, value |-> 79],
      [key |-> <<"e", "i", "g", "h", "t", "y">>, value |-> 80],
      [key |-> <<"e", "i", "g", "h", "t", "y", "o", "n", "e">>, value |-> 81],
      [key |-> <<"e", "i", "g", "h", "t", "y", "t", "w", "o">>, value |-> 82],
      [key |-> <<"e", "i", "g", "h", "t", "y", "t", "h", "r", "e", "e">>, value |-> 83],
      [key |-> <<"e", "i", "g", "h", "t", "y", "f", "o", "u", "r">>, value |-> 84],
      [key |-> <<"e", "i", "g", "h", "t", "y", "s", "e", "v", "e", "n">>, value |-> 87],
      [key |-> <<"e", "i", "g", "h", "t", "y", "e", "i", "g", "h", "t">>, value |-> 88],
      [key |-> <<"e", "i", "g", "h", "t", "y", "n", "i", "n", "e">>, value |-> 89],
      [key |-> <<"n", "i", "n", "e", "t", "y">>, value |-> 90],
      [key |-> <<"n", "i", "n", "e", "t", "y", "o", "n", "e">>, value |-> 91],
      [key |-> <<"n", "i", "n", "e", "t", "y", "t", "w", "o">>, value |-> 92],
      [key |-> <<"n", "i", "n", "e", "t", "y", "t", "h", "r", "e", "e">>, value |-> 93],
      [key |-> <<"n", "i", "n", "e", "t", "y", "f", "o", "u", "r">>, value |-> 94],
      [key |-> <<"n", "i", "n", "e", "t", "y", "f", "i", "v", "e">>, value |-> 95],
      [key |-> <<"n", "i", "n", "e", "t", "y", "e", "i", "g", "h", "t">>, value |-> 98],
      [key |-> <<"n", "i", "n", "e", "t", "y", "n", "i", "n", "e">>, value |-> 99],
      [key |-> <<"o", "n", "e", "h", "u", "n", "d", "r", "e", "d">>, value |-> 100],
      [key |-> <<"o", "n", "e", "h", "u", "n", "d", "r", "e", "d", "a", "n", "d", "o", "n", "e">>, value |-> 101],
      [key |-> <<"o", "n", "e", "h", "u", "n", "d", "r", "e", "d", "a", "n", "d", "t", "w", "o">>, value |-> 102],
      [key |-> <<"o", "n", "e", "h", "u", "n", "d", "r", "e", "d", "a", "n", "d", "t", "h", "r", "e", "e">>, value |-> 103],
      [key |-> <<"o", "n", "e", "h", "u", "n", "d", "r", "e", "d", "a", "n", "d", "f", "i", "v", "e">>, value |-> 105],
      [key |-> <<"o", "n", "e", "h", "u", "n", "d", "r", "e", "d", "a", "n", "d", "s", "i", "x">>, value |-> 106],
      [key |-> <<"o", "n", "e", "h", "u", "n", "d", "r", "e", "d", "a", "n", "d", "e", "i", "g", "h", "t">>, value |-> 108],
      [key |-> <<"o", "n", "e", "h", "u", "n", "d", "r", "e", "d", "a", "n", "d", "n", "i", "n", "e">>, value |-> 109],
      [key |-> <<"o", "n", "e", "h", "u", "n", "d", "r", "e", "d", "a", "n", "d", "t", "e", "n">>, value |-> 110],
      [key |-> <<"o", "n", "e", "h", "u", "n", "d", "r", "e", "d", "a", "n", "d", "e", "l", "e", "v", "e", "n">>, value |-> 111],
      [key |-> <<"o", "n", "e", "h", "u", "n", "d", "r", "e", "d", "a", "n", "d", "t", "w", "e", "l", "v", "e">>, value |-> 112],
      [key |-> <<"o", "n", "e", "h", "u", "n", "d", "r", "e", "d", "a", "n", "d", "t", "h", "i", "r", "t", "e", "e", "n">>, value |-> 113],
      [key |-> <<"o", "n", "e", "h", "u", "n", "d", "r", "e", "d", "a", "n", "d", "f", "o", "u", "r", "t", "e", "e", "n">>, value |-> 114],
      [key |-> <<"o", "n", "e", "h", "u", "n", "d", "r", "e", "d", "a", "n", "d", "f", "i", "f", "t", "e", "e", "n">>, value |-> 115],
      [key |-> <<"o", "n", "e", "h", "u", "n", "d", "r", "e", "d", "a", "n", "d", "e", "i", "g", "h", "t", "e", "e", "n">>, value |-> 118],
      [key |-> <<"o", "n", "e", "h", "u", "n", "d", "r", "e", "d", "a", "n", "d", "t", "w", "e", "n", "t", "y">>, value |-> 120],
      [key |-> <<"o", "n", "e", "h", "u", "n", "d", "r", "e", "d", "a", "n", "d", "t", "w", "e", "n", "t", "y", "o", "n", "e">>, value |-> 121],
      [key |-> <<"o", "n", "e", "h", "u", "n", "d", "r", "e", "d", "a", "n", "d", "t", "w", "e", "n", "t", "y", "t", "w", "o">>, value |-> 122],
      [key |-> <<"o", "n", "e", "h", "u", "n", "d", "r", "e", "d", "a", "n", "d", "t", "w", "e", "n", "t", "y", "t", "h", "r", "e", "e">>, value |-> 123],
      [key |-> <<"o", "n", "e", "h", "u", "n", "d", "r", "e", "d", "a", "n", "d", "t", "w", "e", "n", "t", "y", "f", "o", "u", "r">>, value |-> 124],
      [key |-> <<"o", "n", "e", "h", "u", "n", "d", "r", "e", "d", "a", "n", "d", "t", "w", "e", "n", "t", "y", "s", "i", "x">>, value |-> 126],
      [key |-> <<"o", "n", "e", "h", "u", "n", "d", "r", "e", "d", "a", "n", "d", "t", "h", "i", "r", "t", "y">>, value |-> 130],
      [key |-> <<"o", "n", "e", "h", "u", "n", "d", "r", "e", "d", "a", "n", "d", "t", "h", "i", "r", "t", "y", "o", "n", "e">>, value |-> 131],
      [key |-> <<"o", "n", "e", "h", "u", "n", "d", "r", "e", "d", "a", "n", "d", "t", "h", "i", "r", "t", "y", "t", "w", "o">>, value |-> 132],
      [key |-> <<"o", "n", "e", "h", "u", "n", "d", "r", "e", "d", "a", "n", "d", "t", "h", "i", "r", "t", "y", "t", "h", "r", "e", "e">>, value |-> 133],
      [key |-> <<"o", "n", "e", "h", "u", "n", "d", "r", "e", "d", "a", "n", "d", "t", "h", "i", "r", "t", "y", "f", "o", "u", "r">>, value |-> 134]>>

\* str.endswith(suffix)
EndsWith(str, suffix) ==
    Len(suffix) <= Len(str)
        /\ SubSeq(str, Len(str) - Len(suffix) + 1, Len(str)) = suffix

\* the test of one key prefix without the underscore
KeyIsPrefix(filename, key) == StartsWith(filename, key)

\* line 139: filename.startswith(f"{key_prefix}_")
KeyMatches(filename, key) == StartsWith(filename, key \o <<"_">>)

\* lines 136-141: the first key of the map, in its order, that matches; 0 for None
MatchingKey(filename) ==
    IF \E k \in DOMAIN fileDict : KeyMatches(filename, fileDict[k].key)
    THEN CHOOSE k \in DOMAIN fileDict :
            /\ KeyMatches(filename, fileDict[k].key)
            /\ \A j \in 1..(k - 1) : ~KeyMatches(filename, fileDict[j].key)
    ELSE 0

\* a JSON object as json.load gives it: the members in file order
Member(k, v) == [key |-> k, value |-> v]

\* data[key] = value on a dict: an existing key keeps its place, a new one
\* goes to the end
SetItem(pairs, k, v) ==
    IF \E i \in DOMAIN pairs : pairs[i].key = k
    THEN [i \in DOMAIN pairs |-> IF pairs[i].key = k THEN Member(k, v) ELSE pairs[i]]
    ELSE Append(pairs, Member(k, v))

\* what a directory entry holds: the kind of its content ("object", "array",
\* "scalar", "invalid" for text json.load rejects, "directory"), the members
\* of an object, and how the text is laid out
Content(kind, pairs, layout) == [kind |-> kind, pairs |-> pairs, layout |-> layout]

File(name, content) == [name |-> name, content |-> content]

\* lines 149-159: the content after load, assignment and dump with indent=4;
\* a load or an assignment that raises leaves the file as it is, since the
\* file is opened for writing only after both
Updated(content, value) ==
    IF content.kind = "object"
    THEN Content("object", SetItem(content.pairs, "fnumber", value), "indent4")
    ELSE content

FileNames ==
    <<<<"t", "w", "o", "_", "1", ".", "j", "s", "o", "n">>,
      <<"t", "w", "o", "_", "1", ".", "t", "x", "t">>,
      <<"t", "w", "o", ".", "j", "s", "o", "n">>,
      <<"t", "w", "o", "s", "_", "1", ".", "j", "s", "o", "n">>,
      <<"T", "w", "o", "_", "1", ".", "j", "s", "o", "n">>,
      <<"e", "i", "g", "h", "t", "_", "1", ".", "j", "s", "o", "n">>,
      <<"_", "1", ".", "j", "s", "o", "n">>,
      <<"o", "n", "e", "h", "u", "n", "d", "r", "e", "d", "a", "n", "d", "t", "w", "e", "n", "t", "y", "_", "3", ".", "j", "s", "o", "n">>,
      <<"o", "n", "e", "h", "u", "n", "d", "r", "e", "d", "a", "n", "d", "t", "w", "e", "n", "t", "y", "o", "n", "e", "_", "3", ".", "j", "s", "o", "n">>,
      <<"t", "e", "n", "_", "a", "_", "b", ".", "j", "s", "o", "n">>>>

FileContents ==
    <<Content("object", <<>>, "compact"),
      Content("object", <<Member("data", 1)>>, "compact"),
      Content("object", <<Member("data", 1)>>, "indent4"),
      Content("object", <<Member("fnumber", 7), Member("data", 1)>>, "compact"),
      Content("invalid", <<>>, "compact"),
      Content("object", <<Member("data", 1), Member("fnumber", 2)>>, "indent4"),
      Content("array", <<>>, "compact"),
      Content("scalar", <<>>, "compact"),
      Content("directory", <<>>, "compact")>>

\* every name with every content, one after the other
Catalogue ==
    [k \in 1..(Len(FileNames) * Len(FileContents)) |->
        File(FileNames[((k - 1) % Len(FileNames)) + 1],
             FileContents[((k - 1) % Len(FileContents)) + 1])]

\* the folders: FolderSize files that follow each other in the catalogue, or
\* a path that does not exist
Folders ==
    {[exists |-> TRUE,
      files |-> [i \in 1..FolderSize |->
                    Catalogue[((k + i - 2) % Len(Catalogue)) + 1]]] :
        k \in DOMAIN Catalogue}
      \cup {[exists |-> FALSE, files |-> <<>>]}

(* lines 123-130: the folder is checked and listed *)
UpdateStart ==
    /\ fnpc = "start"
    /\ IF folder.exists
       THEN fnpc' = "loop" /\ fnpos' = 1
       ELSE fnpc' = "returned" /\ fnpos' = fnpos
    /\ UNCHANGED <<folder, folder0, runs, after_one>>
    /\ UNCHANGED <<genVars, mainVars, etlVars, pdfVars, crawlVars>>

(* lines 130-168: the body of the loop for one directory entry *)
UpdateFile ==
    /\ fnpc = "loop"
    /\ fnpos <= Len(folder.files)
    /\ LET f == folder.files[fnpos]
           m == MatchingKey(f.name)
       IN  folder' =
              IF EndsWith(f.name, <<".", "j", "s", "o", "n">>) /\ m /= 0
              THEN [folder EXCEPT !.files[fnpos].content =
                                      Updated(f.content, fileDict[m].value)]
              ELSE folder
    /\ fnpos' = fnpos + 1
    /\ UNCHANGED <<fnpc, folder0, runs, after_one>>
    /\ UNCHANGED <<genVars, mainVars, etlVars, pdfVars, crawlVars>>

(* the listing is exhausted and the function returns *)
UpdateReturn ==
    /\ fnpc = "loop"
    /\ fnpos > Len(folder.files)
    /\ fnpc' = "returned"
    /\ UNCHANGED <<folder, folder0, fnpos, runs, after_one>>
    /\ UNCHANGED <<genVars, mainVars, etlVars, pdfVars, crawlVars>>

(* line 171: the script has run once more; it may be run again *)
ScriptEnds ==
    /\ fnpc = "returned"
    /\ runs < MaxRuns
    /\ runs' = runs + 1
    /\ after_one' = IF runs = 0 THEN folder.files ELSE after_one
    /\ fnpc' = IF runs + 1 < MaxRuns THEN "start" ELSE "ended"
    /\ UNCHANGED <<folder, folder0, fnpos>>
    /\ UNCHANGED <<genVars, mainVars, etlVars, pdfVars, crawlVars>>

InitUpdate ==
    /\ GenIdle
    /\ EtlIdle
    /\ PdfIdle
    /\ CrawlIdle
    /\ fnpc = "start"
    /\ folder \in Folders
    /\ folder0 = folder
    /\ fnpos = 0
    /\ runs = 0
    /\ after_one = <<>>

NextUpdate == UpdateStart \/ UpdateFile \/ UpdateReturn \/ ScriptEnds

SpecUpdate == InitUpdate /\ [][NextUpdate]_vars

\* the part of a file name before its first underscore
RECURSIVE BeforeUnderscore(_)
BeforeUnderscore(name) ==
    IF name = <<>> \/ Head(name) = "_" THEN <<>>
    ELSE <<Head(name)>> \o BeforeUnderscore(Tail(name))

\* the keys of the map a file name starts with, underscore included
KeysOf(name) == {k \in DOMAIN fileDict : KeyMatches(name, fileDict[k].key)}

\* the file is one the update is meant for
Addressed(name) == EndsWith(name, <<".", "j", "s", "o", "n">>) /\ KeysOf(name) /= {}

\* the members of an object other than fnumber, in order
OtherMembers(pairs) == SelectSeq(pairs, LAMBDA m : m.key /= "fnumber")

\* the loop has dealt with file i in this run or in an earlier one
Processed(i) == runs > 0 \/ fnpc \in {"returned", "ended"} \/ (fnpc = "loop" /\ i < fnpos)

\* C21: update_json_files changes a file only if its name ends in .json and
\* starts with a key of the map followed by an underscore; at most one key
\* matches, and it is the part of the name before the first underscore; the
\* parsed object of such a file changes only in its root key fnumber, which is
\* set to the value of that key; a file that does not parse or is not an
\* object stays as it is; a second run leaves the files as the first left them.
UpdateSetsOnlyFnumber ==
    folder.exists =>
        /\ Len(folder.files) = Len(folder0.files)
        /\ \A i \in DOMAIN folder.files :
              LET f  == folder.files[i]
                  f0 == folder0.files[i]
              IN  /\ f.name = f0.name
                  /\ f /= f0 => Addressed(f0.name)
                  /\ Cardinality(KeysOf(f0.name)) <= 1
                  /\ \A k \in KeysOf(f0.name) :
                        fileDict[k].key = BeforeUnderscore(f0.name)
                  /\ f0.content.kind /= "object" => f = f0
                  /\ f.content.kind = f0.content.kind
                  /\ OtherMembers(f.content.pairs) = OtherMembers(f0.content.pairs)
                  /\ (Processed(i) /\ Addressed(f0.name) /\ f0.content.kind = "object") =>
                        \E k \in KeysOf(f0.name) :
                           /\ BeforeUnderscore(f0.name) = fileDict[k].key
                           /\ Cardinality({j \in DOMAIN f.content.pairs :
                                   f.content.pairs[j] = Member("fnumber", fileDict[k].value)}) = 1
                           /\ \A j \in DOMAIN f.content.pairs :
                                 f.content.pairs[j].key = "fnumber" =>
                                    f.content.pairs[j].value = fileDict[k].value
        /\ runs = MaxRuns => folder.files = after_one

\* after two runs: a file whose key is the longer of two keys that begin alike
\* carries the longer key's value in place of an older fnumber, next to a file
\* the update left alone
UpdatedTwice ==
    /\ fnpc = "ended"
    /\ runs = MaxRuns
    /\ \E i, j \in DOMAIN folder.files :
          /\ folder0.files[i].name =
                <<"o", "n", "e", "h", "u", "n", "d", "r", "e", "d", "a", "n", "d",
                  "t", "w", "e", "n", "t", "y", "o", "n", "e", "_", "3", ".",
                  "j", "s", "o", "n">>
          /\ folder0.files[i].content.pairs = <<Member("fnumber", 7), Member("data", 1)>>
          /\ folder.files[i].content.pairs = <<Member("fnumber", 121), Member("data", 1)>>
          /\ folder.files[j] = folder0.files[j]
          /\ Addressed(folder0.files[j].name)
          /\ folder0.files[j].content.kind = "invalid"

-----------------------------------------------------------------------------
(* untitled1.mcq_options_int: how far the distractors lie from the answer *)

\* max(6, floor(0.2 * |c|))
SpreadLimit(c) == IF Abs(c) \div 5 > 6 THEN Abs(c) \div 5 ELSE 6

WithinSpread(d, c) == d > 0 /\ 1 <= Abs(d - c) /\ Abs(d - c) <= SpreadLimit(c)

\* C22: every distractor d of untitled1.mcq_options_int for a correct value c
\* has 1 <= |d - c| <= max(6, floor(0.2 * |c|)) and d > 0, in the set being
\* filled and in the options returned (the symmetry builder is the one that
\* works from a pool).
DistractorsWithinSpread ==
    (variant = U1 /\ pc \in {"int_loop", "done"} /\ pool = {}) =>
        /\ \A d \in cand \ {correct} : WithinSpread(d, correct)
        /\ pc = "done" =>
              \A l \in LabelSet \ {letter} : WithinSpread(ParseInt(options[l]), correct)

\* options at the full distance on both sides: 6 for a small answer, a fifth
\* of the answer for a large one
DistractorsAtTheLimit ==
    /\ variant = U1
    /\ pc = "done"
    /\ pool = {}
    /\ \/ correct = 7 /\ {1, 13} \subseteq cand
       \/ correct = 10000 /\ {8000, 12000} \subseteq cand

-----------------------------------------------------------------------------
(* topic sample paper: the batches and the PDFs of one run *)

\* the questions of the input have pairwise distinct question texts
DistinctInput ==
    \A i, j \in DOMAIN all_data :
        i /= j => question_signature(GetQuestion(all_data[i]))
                      /= question_signature(GetQuestion(all_data[j]))

\* C23 as stated: with pairwise distinct question texts in the input, the
\* questions of every batch a call of select_questions returns have pairwise
\* distinct signatures, on the first call and on every later one.
BatchHasNoRepeats ==
    DistinctInput =>
        \A c \in DOMAIN returned :
            Cardinality(BatchSignatures(returned[c])) = Len(returned[c])

\* C24 as stated: when fewer than 20 unused questions remain, none included,
\* select_questions returns normally and create_multiple_pdfs stops the loop
\* without a PDF for the incomplete batch and without an exception.
ShortBatchEndsQuietly ==
    /\ etlpc /= "ValueError"
    /\ \A k \in DOMAIN pdfs : Len(pdfs[k].batch) >= SelectCount
    /\ (etlpc = "paper_scan" /\ cursor > Len(all_data)
            /\ Len(Unused(paper_pool, used)) < SelectCount) => ENABLED PaperSelectReturns

\* the number of PDFs create_multiple_pdfs announces: ceil(total / TOTAL_PER_PDF)
Announced == (Len(all_data) + TOTAL_PER_PDF - 1) \div TOTAL_PER_PDF

\* C25 as stated: for an input of questions with pairwise distinct texts whose
\* size is a multiple of 20, the run ends with exactly the announced number
\* of PDFs written.
AnnouncedPdfsAreCreated ==
    (DistinctInput /\ Len(all_data) % TOTAL_PER_PDF = 0
        /\ etlpc \in {"paper_done", "ValueError"}) => Len(pdfs) = Announced

-----------------------------------------------------------------------------
(* topic sample paper: write_to_pdf, Questions section and answer sheet *)

\* a sub-question of a grouped item; texts and answers are named by the item n
\* and the place k they belong to
SubQuestion(n, k) ==
    [question |-> <<"question", n, k>>,
     options  |-> <<<<"A", "x">>, <<"B", "y">>>>,
     answer   |-> <<"answer", n, k>>]

\* a plain item: no "numbers" list
PlainItem(n) ==
    [numbers   |-> <<>>,
     questions |-> <<>>,
     question  |-> <<"question", n, 0>>,
     options   |-> <<<<"A", "x">>, <<"B", "y">>>>,
     answer    |-> <<"answer", n, 0>>]

\* a grouped item: a non-empty "numbers" list and subs sub-questions
GroupedItem(n, subs) ==
    [numbers   |-> <<n, n + 1>>,
     questions |-> [k \in 1..subs |-> SubQuestion(n, k)],
     question  |-> <<"question", n, 0>>,
     options   |-> <<>>,
     answer    |-> <<"answer", n, 0>>]

ItemKinds == {"plain", "one", "two", "none"}

MakeItem(n, kind) ==
    CASE kind = "plain" -> PlainItem(n)
      [] kind = "one" -> GroupedItem(n, 1)
      [] kind = "two" -> GroupedItem(n, 2)
      [] OTHER -> GroupedItem(n, 0)

\* the lists of up to MaxPaperItems items of every kind
PaperLists ==
    UNION {{[n \in 1..len |-> MakeItem(n, kinds[n])] : kinds \in [1..len -> ItemKinds]} :
              len \in 0..MaxPaperItems}

\* isinstance(numbers, list) and len(numbers) > 0
IsGrouped(item) == Len(item.numbers) > 0

\* the Paragraph flowables of the Questions section; spacers are left out
Header(idx, numbers) == [kind |-> "numbers", idx |-> idx, sub |-> 0, text |-> numbers]
QuestionPara(idx, sub, q) == [kind |-> "question", idx |-> idx, sub |-> sub, text |-> q]
OptionPara(opt) == [kind |-> "option", idx |-> 0, sub |-> 0, text |-> opt]

\* lines 342-356 and 358-375: the question paragraph and its option paragraphs
Rendered(idx, sub, q) ==
    <<QuestionPara(idx, sub, q.question)>>
        \o [k \in DOMAIN q.options |-> OptionPara(q.options[k])]

RECURSIVE Flatten(_)
Flatten(seqs) == IF seqs = <<>> THEN <<>> ELSE Head(seqs) \o Flatten(Tail(seqs))

\* an entry of the answer sheet: f"{idx}({letter}): {ans}" or f"{idx}. {ans}"
AnswerEntry(idx, sub, ans) == [idx |-> idx, sub |-> sub, answer |-> ans]

(* lines 330-376: one item of the loop of the Questions section *)
PdfQuestion ==
    /\ etlpc = "pdf_questions"
    /\ cursor <= Len(data_list)
    /\ LET item == data_list[cursor]
       IN  IF IsGrouped(item)
           THEN /\ questions' = [bound |-> TRUE, list |-> item.questions]
                /\ story' = story \o <<Header(cursor, item.numbers)>>
                               \o Flatten([k \in DOMAIN item.questions |->
                                              Rendered(cursor, k, item.questions[k])])
           ELSE /\ questions' = questions
                /\ story' = story \o Rendered(cursor, 0, item)
    /\ cursor' = cursor + 1
    /\ UNCHANGED <<etlpc, data_list, selected_questions, type_count, all_data,
                   paper_pool, used, returned, pdfs, pdf_i, answers>>
    /\ UNCHANGED <<genVars, mainVars, fnVars, crawlVars>>

(* lines 378-386: the page break, the title and the empty answers list *)
PdfTurnPage ==
    /\ etlpc = "pdf_questions"
    /\ cursor > Len(data_list)
    /\ answers' = <<>>
    /\ cursor' = 1
    /\ etlpc' = "pdf_answers"
    /\ UNCHANGED <<data_list, selected_questions, type_count, all_data,
                   paper_pool, used, returned, pdfs, pdf_i, story, questions>>
    /\ UNCHANGED <<genVars, mainVars, fnVars, crawlVars>>

(* lines 387-396: one item of the loop of the answer sheet; for a grouped
   item the loop runs over the local `questions` as the first loop left it *)
PdfAnswer ==
    /\ etlpc = "pdf_answers"
    /\ cursor <= Len(data_list)
    /\ LET item == data_list[cursor]
       IN  answers' =
              IF IsGrouped(item)
              THEN answers \o [k \in DOMAIN questions.list |->
                                  AnswerEntry(cursor, k, questions.list[k].answer)]
              ELSE Append(answers, AnswerEntry(cursor, 0, item.answer))
    /\ cursor' = cursor + 1
    /\ UNCHANGED <<etlpc, data_list, selected_questions, type_count, all_data,
                   paper_pool, used, returned, pdfs, pdf_i, story, questions>>
    /\ UNCHANGED <<genVars, mainVars, fnVars, crawlVars>>

(* lines 398 on: the answers are laid out in the table and the document is built *)
PdfBuild ==
    /\ etlpc = "pdf_answers"
    /\ cursor > Len(data_list)
    /\ etlpc' = "pdf_done"
    /\ UNCHANGED <<data_list, cursor, selected_questions, type_count, all_data,
                   paper_pool, used, returned, pdfs, pdf_i, story, questions, answers>>
    /\ UNCHANGED <<genVars, mainVars, fnVars, crawlVars>>

InitPdf ==
    /\ GenIdle
    /\ FnIdle
    /\ CrawlIdle
    /\ PdfIdle
    /\ etlpc = "pdf_questions"
    /\ data_list \in PaperLists
    /\ cursor = 1
    /\ selected_questions = <<>>
    /\ type_count = <<>>
    /\ all_data = <<>>
    /\ paper_pool = <<>>
    /\ used = {}
    /\ returned = <<>>
    /\ pdfs = <<>>
    /\ pdf_i = 0

NextPdf == PdfQuestion \/ PdfTurnPage \/ PdfAnswer \/ PdfBuild

SpecPdf == InitPdf /\ [][NextPdf]_vars

\* the question paragraphs of the Questions section, in order
QuestionParas == SelectSeq(story, LAMBDA e : e.kind = "question")

\* the answer stored with the question that was rendered as idx / sub
AnswerOf(idx, sub) ==
    IF sub = 0 THEN data_list[idx].answer ELSE data_list[idx].questions[sub].answer

\* C26 as stated: the finished answer sheet has one entry for every question
\* rendered in the Questions section, in the same order, and each entry
\* carries the answer of that very question, grouped items included.
AnswerSheetMatchesQuestions ==
    etlpc = "pdf_done" =>
        /\ Len(answers) = Len(QuestionParas)
        /\ \A k \in DOMAIN answers :
              k \in DOMAIN QuestionParas =>
                 /\ answers[k].idx = QuestionParas[k].idx
                 /\ answers[k].sub = QuestionParas[k].sub
                 /\ answers[k].answer = AnswerOf(answers[k].idx, answers[k].sub)

-----------------------------------------------------------------------------
(* crawl.py: fetch_json and main *)

\* Python values are records of a kind and a body
Value(kind, body) == [kind |-> kind, body |-> body]
None == Value("none", <<>>)

\* the n-th entry of a response
Entry(n) == Value("entry", <<n>>)

\* what requests.get, raise_for_status and resp.json() can come back with: an
\* exception, a list or a dict of up to MaxEntries entries, or another value
Responses ==
    {Value("error", <<>>), Value("scalar", <<>>)}
        \cup {Value("list", [n \in 1..len |-> Entry(n)]) : len \in 0..MaxEntries}
        \cup {Value("dict", [n \in 1..len |-> <<<<"key", n>>, Entry(n)>>]) : len \in 0..MaxEntries}

\* lines 24-47
fetch_json(response) ==
    CASE response.kind = "error" -> None
      [] response.kind = "list" /\ Len(response.body) > 0 -> response
      [] response.kind = "dict" /\ Len(response.body) > 0 ->
            Value("dict", <<response.body[1]>>)
      [] OTHER -> None

\* the truth value of `data` in `if data:`
Truthy(v) == v.kind /= "none" /\ Len(v.body) > 0

\* the files of main for the i-th URL
FIRST_FILE(i) == <<"first_response", i>>
ARCHIVE_FILE(i) == <<"remaining_responses.zip", i>>
combined_file == <<"remaining_responses.json", 0>>

\* open(name, "w") and a dump of content: a file of that name is replaced
Written(dir, name, content) ==
    {f \in dir : f.name /= name} \cup {[name |-> name, content |-> content]}

\* what open(name, "w") leaves when the dump raises
Empty == Value("empty", <<>>)

At(step, i) == [step |-> step, item |-> i]

(* main, lines 53-77: the names are taken from the URL and the URL is fetched *)
CrawlFetch ==
    /\ crawlpc.step = "fetch"
    /\ \E response \in Responses :
          /\ resp' = response
          /\ data' = fetch_json(response)
    /\ crawlpc' = At("save_first", crawlpc.item)
    /\ UNCHANGED outdir
    /\ UNCHANGED <<genVars, mainVars, etlVars, fnVars, pdfVars>>

(* main, lines 80-83: the first response is saved when there is data;
   data[0] of a dict with a string key raises KeyError after the file is opened *)
CrawlSaveFirst ==
    /\ crawlpc.step = "save_first"
    /\ IF ~Truthy(data)
       THEN /\ outdir' = outdir
            /\ crawlpc' = At("save_rest", crawlpc.item)
       ELSE IF data.kind = "list"
       THEN /\ outdir' = Written(outdir, FIRST_FILE(crawlpc.item), data.body[1])
            /\ crawlpc' = At("save_rest", crawlpc.item)
       ELSE /\ outdir' = Written(outdir, FIRST_FILE(crawlpc.item), Empty)
            /\ crawlpc' = At("KeyError", crawlpc.item)
    /\ UNCHANGED <<resp, data>>
    /\ UNCHANGED <<genVars, mainVars, etlVars, fnVars, pdfVars>>

(* main, lines 94-107: data[1:] is dumped, zipped and the plain file removed;
   data[1:] of None raises TypeError after the file is opened *)
CrawlSaveRest ==
    /\ crawlpc.step = "save_rest"
    /\ IF data.kind = "list"
       THEN /\ outdir' = Written(outdir, ARCHIVE_FILE(crawlpc.item),
                                 Value("list", Tail(data.body)))
            /\ crawlpc' = IF crawlpc.item < NumUrls
                          THEN At("fetch", crawlpc.item + 1)
                          ELSE At("done", crawlpc.item)
       ELSE /\ outdir' = Written(outdir, combined_file, Empty)
            /\ crawlpc' = At("TypeError", crawlpc.item)
    /\ UNCHANGED <<resp, data>>
    /\ UNCHANGED <<genVars, mainVars, etlVars, fnVars, pdfVars>>

InitCrawl ==
    /\ GenIdle
    /\ EtlIdle
    /\ FnIdle
    /\ PdfIdle
    /\ crawlpc = At("fetch", 1)
    /\ resp = None
    /\ data = None
    /\ outdir = {}

NextCrawl == CrawlFetch \/ CrawlSaveFirst \/ CrawlSaveRest

SpecCrawl == InitCrawl /\ [][NextCrawl]_vars

\* C27 as stated: fetch_json returns only the first entry: the first element
\* of a non-empty list, the first key/value pair of a non-empty dict, and
\* None for an empty response or an error.
FetchReturnsFirstEntry ==
    crawlpc.step = "save_first" =>
        data = CASE resp.kind = "list" /\ Len(resp.body) > 0 -> resp.body[1]
                 [] resp.kind = "dict" /\ Len(resp.body) > 0 ->
                       Value("dict", <<resp.body[1]>>)
                 [] OTHER -> None

\* C28 as stated: main raises for no outcome of fetch_json; after a failed
\* fetch there is no first-response file for the URL and main goes on to the
\* next URL.
MainSurvivesEveryFetch ==
    /\ crawlpc.step \notin {"KeyError", "TypeError"}
    /\ (crawlpc.step = "save_rest" /\ data = None) =>
          \A f \in outdir : f.name /= FIRST_FILE(crawlpc.item)

====
